---- MODULE Spec2Model ----
(***************************************************************************)
(* Verification model of settlemint/network-bootstrapper.                  *)
(*                                                                         *)
(* Part I  : the Artifact Synchronizer (download-abi, syncAbiConfigMaps).  *)
(* Part II : the Artifact Publisher (bootstrap output to Kubernetes).      *)
(* Part III: the Genesis Assembler and the Validator Extra-Data Encoder    *)
(*           (BesuGenesisService), with the minimal genesis of a publish.  *)
(* Part IV : compile-genesis (compileGenesis), and a minimal publish       *)
(*           followed by compile-genesis over the same store.              *)
(***************************************************************************)
EXTENDS Integers, Sequences, FiniteSets, TLC

VARIABLES
    \* ---- Synchronizer (syncAbiConfigMaps) ----
    store,               \* the store's content: cursor -> page of ConfigMaps
    syncPc,              \* "listing" | "writing" | "done" | "failed"
    syncError,           \* which throw ended the run ("none" while running / done)
    continueToken,       \* let continueToken (NoToken = undefined)
    retryAttempts,       \* let retryAttempts
    resnapshotAttempts,  \* let resnapshotAttempts
    seenTokens,          \* const seenTokens = new Set<string>()
    totals,              \* const totals = { configMaps, files }
    sink,                \* files on disk: set of <<directory name, file name>>
    writeOps,            \* number of Bun.write calls performed
    writing,             \* the file-system call awaited in the page loop
    pauses,              \* the delays handed to pause(), in order
    calls,               \* the exchange with the store, one record per list call
    \* ---- Publisher (outputToKubernetes) ----
    payload,             \* the OutputPayload handed to outputToKubernetes
    pubPc,               \* position of outputToKubernetes
    pubError,            \* which throw ended the publish run
    probe,               \* the two permission-probe list calls
    specs,               \* the record specs built by outputToKubernetes
    recState,            \* per record spec: state of its create call
    recReply,            \* per record spec: the store's answer to its create call
    createLog,           \* the create calls issued, in order
    skipLog,             \* names logged as "already exists, skipping creation"
    applied,             \* the counts printed by "Applied n ConfigMaps and m Secrets"
    \* ---- Genesis Assembler and Extra-Data Encoder (BesuGenesisService) ----
    assembly,            \* the arguments: algorithm, config, extraAllocations, validators
    asmPc,               \* "ready" | "generated" | "encoded" | "rejected" | "published"
    genesis,             \* the document generate returned
    extraData,           \* what computeExtraData returned
    minimal,             \* the minimal genesis and the allocation specs of a publish
    creates,             \* the create calls of the genesis and allocation records
    compiledFrom,        \* what the create calls had come to when compile-genesis started
    \* ---- compile-genesis (compileGenesis) ----
    cgStore,             \* the store's ConfigMaps by name
    cgPc,                \* "start" | "genesis" | "merging" | "writing" | "done" | "failed"
    cgError,             \* which throw ended the run
    cgGenesis,           \* const genesis = parseGenesisPayload(...)
    combinedAlloc,       \* const combinedAlloc
    cgIndex,             \* position of the for loop over Object.keys(combinedAlloc)
    cgReads,             \* names handed to readConfigMap, in order
    cgOutput             \* the document written to outputPath

syncVars == <<store, syncPc, syncError, continueToken, retryAttempts,
              resnapshotAttempts, seenTokens, totals, sink, writeOps, writing,
              pauses, calls>>
pubVars == <<payload, pubPc, pubError, probe, specs, recState, recReply, createLog,
             skipLog, applied>>
asmVars == <<assembly, asmPc, genesis, extraData, minimal, creates, compiledFrom>>
cgVars == <<cgStore, cgPc, cgError, cgGenesis, combinedAlloc, cgIndex, cgReads, cgOutput>>
vars == <<syncVars, pubVars, asmVars, cgVars>>

(***************************************************************************)
(* Bounds of the model.                                                    *)
(***************************************************************************)
\* Largest number of list calls of one synchronization run that is explored.
MaxCalls == 9
\* Largest number of genesis and allocation records of one publish that is
\* explored: the genesis and two allocations.
MaxRecords == 3
\* Largest number of store replies other than success in one publish run.
MaxFaults == 2

(***************************************************************************)
(* Part I - Artifact Synchronizer                                          *)
(***************************************************************************)
RESOURCE_EXPIRED_STATUS == 410
HTTP_TOO_MANY_REQUESTS == 429
HTTP_INTERNAL_SERVER_ERROR == 500
HTTP_BAD_GATEWAY == 502
HTTP_SERVICE_UNAVAILABLE == 503
HTTP_GATEWAY_TIMEOUT == 504
RETRYABLE_STATUS_CODES ==
    {HTTP_TOO_MANY_REQUESTS, HTTP_INTERNAL_SERVER_ERROR, HTTP_BAD_GATEWAY,
     HTTP_SERVICE_UNAVAILABLE, HTTP_GATEWAY_TIMEOUT}
MAX_PAGE_RETRY_ATTEMPTS == 5
MAX_RESNAPSHOT_ATTEMPTS == 3
RETRY_BASE_DELAY_MS == 100

\* getStatusCode(error) === undefined: an error that carries no status
NoStatus == 0
\* Statuses a failing list call is explored with: the retryable ones, "expired",
\* 403 (neither expired nor retryable) and an error without status.
ListErrorStatuses == RETRYABLE_STATUS_CODES \cup {RESOURCE_EXPIRED_STATUS, 403, NoStatus}

\* The discovery annotation values (constants/artifact-annotations.ts).
ARTIFACT_VALUES_abi == "abi"
ARTIFACT_VALUES_alloc == "alloc"
\* annotation value of an object that carries no discovery annotation (undefined)
NoAnnotation == "none"

\* continueToken === undefined; an empty token string is treated alike.
NoToken == ""
Tokens == {"page-2", "page-3"}
Cursors == Tokens \cup {NoToken}

\* metadata.name missing
NoName == ""

\* ConfigMaps the store may hold. A data key is a sequence of text pieces so that
\* the path separators a key may contain are visible to SafeKey.
Entry(key, isString) == [key |-> key, isString |-> isString]
CmAbiFirst ==
    [name |-> "abi-first", annotation |-> ARTIFACT_VALUES_abi,
     data |-> <<Entry(<<"First.json">>, TRUE), Entry(<<"sub", "/", "Second.json">>, TRUE)>>]
CmAbiSecond ==
    [name |-> "abi-second", annotation |-> ARTIFACT_VALUES_abi,
     data |-> <<Entry(<<"Token.json">>, TRUE), Entry(<<"binary">>, FALSE)>>]
CmAbiNameless ==
    [name |-> NoName, annotation |-> ARTIFACT_VALUES_abi,
     data |-> <<Entry(<<"Lost.json">>, TRUE)>>]
CmAbiEmpty ==
    [name |-> "abi-empty", annotation |-> ARTIFACT_VALUES_abi, data |-> <<>>]
\* three data keys that are written to the same file
CmCollide ==
    [name |-> "abi-collide", annotation |-> ARTIFACT_VALUES_abi,
     data |-> <<Entry(<<"a", "/", "b">>, TRUE), Entry(<<"a", "_", "b">>, TRUE),
                Entry(<<"a", "\\", "b">>, TRUE)>>]
CmAlloc ==
    [name |-> "alloc-00aa", annotation |-> ARTIFACT_VALUES_alloc,
     data |-> <<Entry(<<"alloc.json">>, TRUE)>>]
CmOther ==
    [name |-> "besu-genesis", annotation |-> "genesis",
     data |-> <<Entry(<<"genesis.json">>, TRUE)>>]
CmPlain ==
    [name |-> "unrelated", annotation |-> NoAnnotation,
     data |-> <<Entry(<<"ignored.json">>, TRUE)>>]

\* Store contents explored: what the list call returns for each cursor.
StoreA ==
    [c \in Cursors |->
        CASE c = NoToken  -> <<CmAbiFirst, CmAlloc>>
          [] c = "page-2" -> <<CmPlain, CmAbiSecond>>
          [] OTHER        -> <<CmAbiNameless, CmOther, CmAbiEmpty>>]
StoreB ==
    [c \in Cursors |->
        CASE c = NoToken  -> <<CmAlloc, CmOther>>
          [] c = "page-2" -> <<CmAbiFirst>>
          [] OTHER        -> <<CmCollide>>]
Stores == {StoreA, StoreB}

\* key.replace(SAFE_FILENAME_PATTERN, "_") with SAFE_FILENAME_PATTERN = /[\\/]/g
SafeKey(key) ==
    [i \in 1..Len(key) |-> IF key[i] \in {"/", "\\"} THEN "_" ELSE key[i]]

RECURSIVE CountStringEntries(_)
CountStringEntries(entries) ==
    IF entries = <<>> THEN 0
    ELSE (IF Head(entries).isString THEN 1 ELSE 0) + CountStringEntries(Tail(entries))

\* writeConfigMap counting every data entry, string-valued or not.
WriteConfigMapCountAllEntries(configMap) ==
    IF configMap.name = NoName THEN 0
    ELSE Len(configMap.data)

\* writeConfigMap: the number it returns.
WriteConfigMapCount(configMap) ==
    IF configMap.name = NoName THEN 0
    ELSE IF Len(configMap.data) = 0 THEN 0
    ELSE CountStringEntries(configMap.data)

\* writeConfigMap: join(targetDirectory, safeKey) of data entry k, as
\* <<target directory, file name>>.
TargetPath(configMap, k) == <<configMap.name, SafeKey(configMap.data[k].key)>>

\* writeConfigMap returns 0 before any file-system call: no name or no entries.
WritesNothing(configMap) == configMap.name = NoName \/ Len(configMap.data) = 0

\* writeConfigMap: the next entry after position k whose value is a string, 0
\* when the loop over the entries ends.
NextStringEntry(data, k) ==
    LET later == {j \in (k + 1)..Len(data) : data[j].isString}
    IN IF later = {} THEN 0 ELSE CHOOSE j \in later : \A l \in later : j <= l

\* the filter letting every annotated object through
IsAnnotatedConfigMap(configMap) == configMap.annotation # NoAnnotation

\* the filter of the page loop: annotation !== ARTIFACT_VALUES.abi -> continue
IsAbiConfigMap(configMap) == configMap.annotation = ARTIFACT_VALUES_abi

\* totals.configMaps += 1; totals.files += filesWritten
Counted(t, configMap) ==
    [configMaps |-> t.configMaps + 1, files |-> t.files + WriteConfigMapCount(configMap)]

\* The page loop from item i on, as far as it runs without awaiting the file
\* system: items without the annotation value are skipped, items for which
\* writeConfigMap returns at once are counted. It stops at the item whose
\* directory is to be made (item 0: the page is finished).
RECURSIVE PageLoop(_, _, _)
PageLoop(items, i, t) ==
    IF i > Len(items) THEN [item |-> 0, totals |-> t]
    ELSE IF ~IsAbiConfigMap(items[i]) THEN PageLoop(items, i + 1, t)
    ELSE IF WritesNothing(items[i]) THEN PageLoop(items, i + 1, Counted(t, items[i]))
    ELSE [item |-> i, totals |-> t]

\* a delay factor that grows by one step per attempt instead of doubling
Pow2Linear(n) == n + 1

\* 2 ** n
Pow2(n) == 2 ^ n

\* statusCode === RESOURCE_EXPIRED_STATUS
IsExpired(statusCode) == statusCode = RESOURCE_EXPIRED_STATUS

\* the retry guard without the ceiling
MayRetryWithoutCeiling(statusCode, attempts) ==
    /\ statusCode # NoStatus
    /\ statusCode \in RETRYABLE_STATUS_CODES

\* the retry guard with the comparison off by one (<= instead of <)
MayRetryOffByOne(statusCode, attempts) ==
    /\ statusCode # NoStatus
    /\ statusCode \in RETRYABLE_STATUS_CODES
    /\ attempts <= MAX_PAGE_RETRY_ATTEMPTS

\* statusCode && RETRYABLE_STATUS_CODES.has(statusCode) && retryAttempts < MAX_PAGE_RETRY_ATTEMPTS
MayRetry(statusCode, attempts) ==
    /\ statusCode # NoStatus
    /\ statusCode \in RETRYABLE_STATUS_CODES
    /\ attempts < MAX_PAGE_RETRY_ATTEMPTS

\* the resnapshot guard with the comparison off by one (>= instead of >)
ResnapshotExhaustedOffByOne(attempts) == attempts >= MAX_RESNAPSHOT_ATTEMPTS

\* resnapshotAttempts > MAX_RESNAPSHOT_ATTEMPTS, evaluated after the increment
ResnapshotExhausted(attempts) == attempts > MAX_RESNAPSHOT_ATTEMPTS

\* the guard comparing the new token with the current cursor only
IsRepeatedTokenCursorOnly(nextToken, seen) == nextToken = continueToken

\* seenTokens.has(nextToken)
IsRepeatedToken(nextToken, seen) == nextToken \in seen

\* seenTokens after an expired snapshot: seenTokens.clear()
ClearedTokens(seen) == {}

\* the cursor after an expired snapshot: continueToken = undefined
ResetCursorKeepingToken(token) == token
ResetCursor(token) == NoToken

Call(sent, kind, next) == [sent |-> sent, kind |-> kind, next |-> next]

\* no file-system call is awaited
NoWrite == [item |-> 0, entry |-> 0]

SyncInit ==
    /\ store \in Stores
    /\ syncPc = "listing"
    /\ syncError = "none"
    /\ continueToken = NoToken
    /\ retryAttempts = 0
    /\ resnapshotAttempts = 0
    /\ seenTokens = {}
    /\ totals = [configMaps |-> 0, files |-> 0]
    /\ sink = {}
    /\ writeOps = 0
    /\ writing = NoWrite
    /\ pauses = <<>>
    /\ calls = <<>>

SyncRunning == syncPc = "listing" /\ Len(calls) < MaxCalls

\* a successful page that leaves the attempt counters as they are
AttemptsAfterSuccessKept(attempts) == attempts

\* retryAttempts = 0; resnapshotAttempts = 0
AttemptsAfterSuccess(attempts) == 0

\* The page being processed and the continue token of its response.
CurrentPage == store[calls[Len(calls)].sent]
CurrentNextToken == calls[Len(calls)].next

\* The page loop went on to position r (of PageLoop): either the directory of an
\* item is to be made, or the page is finished and the response's continue
\* token decides how the loop goes on.
AfterPageLoop(r, nextToken) ==
    /\ totals' = r.totals
    /\ IF r.item # 0
       THEN /\ syncPc' = "writing"
            /\ writing' = [item |-> r.item, entry |-> 0]
            /\ UNCHANGED <<syncError, seenTokens, continueToken>>
       ELSE /\ writing' = NoWrite
            /\ IF nextToken = NoToken
               THEN /\ syncPc' = "done"
                    /\ UNCHANGED <<syncError, seenTokens, continueToken>>
               ELSE IF IsRepeatedToken(nextToken, seenTokens)
               THEN /\ syncPc' = "failed"
                    /\ syncError' = "repeated-token"
                    /\ UNCHANGED <<seenTokens, continueToken>>
               ELSE /\ seenTokens' = seenTokens \cup {nextToken}
                    /\ continueToken' = nextToken
                    /\ syncPc' = "listing"
                    /\ UNCHANGED syncError

\* A file-system call of the page loop rejects: the error leaves
\* syncAbiConfigMaps.
WriteFails ==
    /\ syncPc' = "failed"
    /\ syncError' = "write-failed"
    /\ UNCHANGED <<totals, writing, seenTokens, continueToken, sink, writeOps>>

\* One loop iteration whose list call succeeds: the counters are reset and the
\* page loop runs up to its first file-system call, or to the end of the page.
ListSucceeds(nextToken) ==
    /\ SyncRunning
    /\ retryAttempts' = AttemptsAfterSuccess(retryAttempts)
    /\ resnapshotAttempts' = AttemptsAfterSuccess(resnapshotAttempts)
    /\ calls' = Append(calls, Call(continueToken, "ok", nextToken))
    /\ AfterPageLoop(PageLoop(store[continueToken], 1, totals), nextToken)
    /\ UNCHANGED <<store, pauses, sink, writeOps>>
    /\ UNCHANGED <<pubVars, asmVars, cgVars>>

\* writeConfigMap: await ensureDirectory(targetDirectory) settles. When the item
\* has no string entry writeConfigMap returns 0 and the page loop goes on.
EnsureDirectory(made) ==
    /\ syncPc = "writing"
    /\ writing.entry = 0
    /\ LET configMap == CurrentPage[writing.item]
           first == NextStringEntry(configMap.data, 0)
       IN IF ~made THEN WriteFails
          ELSE IF first # 0
          THEN /\ writing' = [writing EXCEPT !.entry = first]
               /\ UNCHANGED <<syncPc, syncError, totals, seenTokens, continueToken,
                              sink, writeOps>>
          ELSE /\ AfterPageLoop(PageLoop(CurrentPage, writing.item + 1,
                                         Counted(totals, configMap)),
                                CurrentNextToken)
               /\ UNCHANGED <<sink, writeOps>>
    /\ UNCHANGED <<store, retryAttempts, resnapshotAttempts, pauses, calls>>
    /\ UNCHANGED <<pubVars, asmVars, cgVars>>

\* writeConfigMap: await Bun.write(targetPath, value) settles. After the last
\* string entry writeConfigMap returns the number written and the page loop
\* goes on.
WriteEntry(written) ==
    /\ syncPc = "writing"
    /\ writing.entry # 0
    /\ LET configMap == CurrentPage[writing.item]
           next == NextStringEntry(configMap.data, writing.entry)
       IN IF ~written THEN WriteFails
          ELSE /\ sink' = sink \cup {TargetPath(configMap, writing.entry)}
               /\ writeOps' = writeOps + 1
               /\ IF next # 0
                  THEN /\ writing' = [writing EXCEPT !.entry = next]
                       /\ UNCHANGED <<syncPc, syncError, totals, seenTokens,
                                      continueToken>>
                  ELSE AfterPageLoop(PageLoop(CurrentPage, writing.item + 1,
                                              Counted(totals, configMap)),
                                     CurrentNextToken)
    /\ UNCHANGED <<store, retryAttempts, resnapshotAttempts, pauses, calls>>
    /\ UNCHANGED <<pubVars, asmVars, cgVars>>

\* One loop iteration whose list call is rejected with status 410.
ListExpired ==
    /\ SyncRunning
    /\ resnapshotAttempts' = resnapshotAttempts + 1
    /\ calls' = Append(calls, Call(continueToken, "expired", NoToken))
    /\ IF ResnapshotExhausted(resnapshotAttempts + 1)
       THEN /\ syncPc' = "failed"
            /\ syncError' = "snapshot-expired"
            /\ UNCHANGED <<continueToken, seenTokens, pauses>>
       ELSE /\ continueToken' = ResetCursor(continueToken)
            /\ seenTokens' = ClearedTokens(seenTokens)
            /\ pauses' = Append(pauses, RETRY_BASE_DELAY_MS * (resnapshotAttempts + 1))
            /\ UNCHANGED <<syncPc, syncError>>
    /\ UNCHANGED <<store, retryAttempts, totals, sink, writeOps, writing>>
    /\ UNCHANGED <<pubVars, asmVars, cgVars>>

\* the retry branch restarting the listing (cursor and seen tokens dropped)
ListRetriedFromStart(statusCode) ==
    /\ SyncRunning
    /\ ~IsExpired(statusCode)
    /\ MayRetry(statusCode, retryAttempts)
    /\ retryAttempts' = retryAttempts + 1
    /\ pauses' = Append(pauses, RETRY_BASE_DELAY_MS * Pow2((retryAttempts + 1) - 1))
    /\ calls' = Append(calls, Call(continueToken, "retryable", NoToken))
    /\ continueToken' = NoToken
    /\ seenTokens' = {}
    /\ UNCHANGED <<store, syncPc, syncError, resnapshotAttempts, totals, sink, writeOps,
                   writing>>
    /\ UNCHANGED <<pubVars, asmVars, cgVars>>

\* One loop iteration whose list call is rejected with a retryable status while
\* retries are left: the counter grows, the loop pauses and continues; the
\* cursor and the seen tokens are not assigned.
ListRetried(statusCode) ==
    /\ SyncRunning
    /\ ~IsExpired(statusCode)
    /\ MayRetry(statusCode, retryAttempts)
    /\ retryAttempts' = retryAttempts + 1
    /\ pauses' = Append(pauses, RETRY_BASE_DELAY_MS * Pow2((retryAttempts + 1) - 1))
    /\ calls' = Append(calls, Call(continueToken, "retryable", NoToken))
    /\ UNCHANGED <<store, syncPc, syncError, continueToken, resnapshotAttempts,
                   seenTokens, totals, sink, writeOps, writing>>
    /\ UNCHANGED <<pubVars, asmVars, cgVars>>

\* One loop iteration whose list call is rejected and the error is rethrown:
\* a status that is not retryable, no status at all, or no retries left.
ListRejected(statusCode) ==
    /\ SyncRunning
    /\ ~IsExpired(statusCode)
    /\ ~MayRetry(statusCode, retryAttempts)
    /\ syncPc' = "failed"
    /\ syncError' = "list-failed"
    /\ calls' = Append(calls,
          Call(continueToken,
               IF statusCode \in RETRYABLE_STATUS_CODES THEN "retryable" ELSE "fatal",
               NoToken))
    /\ UNCHANGED <<store, continueToken, retryAttempts, resnapshotAttempts,
                   seenTokens, totals, sink, writeOps, writing, pauses>>
    /\ UNCHANGED <<pubVars, asmVars, cgVars>>

SyncNext ==
    \/ \E nextToken \in Cursors : ListSucceeds(nextToken)
    \/ ListExpired
    \/ \E statusCode \in ListErrorStatuses : ListRetried(statusCode)
    \/ \E statusCode \in ListErrorStatuses : ListRejected(statusCode)
    \/ \E made \in BOOLEAN : EnsureDirectory(made)
    \/ \E written \in BOOLEAN : WriteEntry(written)

(***************************************************************************)
(* Properties of the Synchronizer                                          *)
(***************************************************************************)
\* The list calls of the history that succeeded.
OkCalls == {i \in 1..Len(calls) : calls[i].kind = "ok"}

\* First call of the listing that call i belongs to: a listing starts at the
\* first call and again after every expired snapshot.
ListingStart(i) ==
    LET expired == {j \in 1..(i - 1) : calls[j].kind = "expired"}
    IN IF expired = {} THEN 1 ELSE (CHOOSE j \in expired : \A k \in expired : k <= j) + 1

\* Tokens the store returned in the listing of call i before call i.
ReturnedBefore(i) ==
    {calls[j].next : j \in {k \in ListingStart(i)..(i - 1) : calls[k].kind = "ok"}} \ {NoToken}

\* Call i succeeded and carried a token already returned in its listing.
RepeatsToken(i) ==
    /\ calls[i].kind = "ok"
    /\ calls[i].next # NoToken
    /\ calls[i].next \in ReturnedBefore(i)

\* C1: a successful response whose continuation token was already returned in the
\* current listing ends the run in failure (protocol violation) once its page
\* has been processed, unless writing the page failed before; that call is the
\* last list call of the run.
C1_RepeatedTokenFails ==
    \A i \in 1..Len(calls) :
        RepeatsToken(i) =>
            /\ i = Len(calls)
            /\ syncPc \in {"writing", "failed"}
            /\ syncPc = "failed" => syncError \in {"repeated-token", "write-failed"}

C1_Witness ==
    /\ syncPc = "failed"
    /\ syncError = "repeated-token"
    /\ \E i \in 1..Len(calls) : RepeatsToken(i) /\ i >= 3

\* Length of the run of consecutive retryable failures that ends with call i.
RECURSIVE RetryableRun(_)
RetryableRun(i) ==
    IF i = 0 \/ calls[i].kind # "retryable" THEN 0 ELSE 1 + RetryableRun(i - 1)

\* C7: consecutive retryable failures are retried at most MAX_PAGE_RETRY_ATTEMPTS
\* (5) times; the retryable failure that follows the fifth retry ends the run as
\* failed and is the last list call.
C7_RetryCeiling ==
    /\ retryAttempts <= MAX_PAGE_RETRY_ATTEMPTS
    /\ \A i \in 1..Len(calls) :
          /\ RetryableRun(i) <= MAX_PAGE_RETRY_ATTEMPTS + 1
          /\ RetryableRun(i) = MAX_PAGE_RETRY_ATTEMPTS + 1 =>
                /\ syncPc = "failed"
                /\ syncError = "list-failed"
                /\ i = Len(calls)

C7_Witness ==
    /\ syncPc = "failed"
    /\ Len(calls) = MAX_PAGE_RETRY_ATTEMPTS + 1
    /\ RetryableRun(Len(calls)) = MAX_PAGE_RETRY_ATTEMPTS + 1

\* Number of expired-snapshot failures among the calls up to i that follow the
\* last successful call before i.
RECURSIVE ExpiredSinceOk(_)
ExpiredSinceOk(i) ==
    IF i = 0 \/ calls[i].kind = "ok" THEN 0
    ELSE (IF calls[i].kind = "expired" THEN 1 ELSE 0) + ExpiredSinceOk(i - 1)

\* Restarts of the listing performed so far: expired calls that did not end the run.
Restarts ==
    Cardinality({i \in 1..Len(calls) :
        calls[i].kind = "expired" /\ ~(i = Len(calls) /\ syncError = "snapshot-expired")})

\* C8: an expired cursor restarts the listing at most MAX_RESNAPSHOT_ATTEMPTS (3)
\* times in a row; the expired failure that would be the fourth ends the run as
\* failed instead of restarting, and no earlier one does.
C8_ResnapshotCeiling ==
    /\ resnapshotAttempts <= MAX_RESNAPSHOT_ATTEMPTS + 1
    /\ \A i \in 1..Len(calls) :
          /\ ExpiredSinceOk(i) <= MAX_RESNAPSHOT_ATTEMPTS + 1
          /\ (calls[i].kind = "expired" /\ ExpiredSinceOk(i) = MAX_RESNAPSHOT_ATTEMPTS + 1) =>
                /\ syncPc = "failed"
                /\ syncError = "snapshot-expired"
                /\ i = Len(calls)
    /\ syncError = "snapshot-expired" =>
          /\ ExpiredSinceOk(Len(calls)) = MAX_RESNAPSHOT_ATTEMPTS + 1
          /\ Restarts = Len(pauses) - Cardinality({i \in 1..Len(calls) : calls[i].kind = "retryable"})

C8_Witness ==
    /\ syncError = "snapshot-expired"
    /\ ExpiredSinceOk(Len(calls)) = MAX_RESNAPSHOT_ATTEMPTS + 1

\* Objects of a page that carry the interface-bundle annotation value.
MatchedIn(items) ==
    Cardinality({j \in 1..Len(items) : items[j].annotation = ARTIFACT_VALUES_abi})

\* Data entries of the matched objects of a page that end up as files: the
\* string-valued entries of the matched objects that have a name.
RECURSIVE EntriesIn(_)
EntriesIn(items) ==
    IF items = <<>> THEN 0
    ELSE (IF Head(items).annotation = ARTIFACT_VALUES_abi /\ Head(items).name # NoName
          THEN Cardinality({k \in 1..Len(Head(items).data) : Head(items).data[k].isString})
          ELSE 0)
         + EntriesIn(Tail(items))

RECURSIVE SumOverOkCalls(_, _)
SumOverOkCalls(Count(_), i) ==
    IF i = 0 THEN 0
    ELSE (IF calls[i].kind = "ok" THEN Count(store[calls[i].sent]) ELSE 0)
         + SumOverOkCalls(Count, i - 1)

\* The history is: one expired failure, then only successful calls.
ExpiredThenOk ==
    /\ Len(calls) >= 2
    /\ calls[1].kind = "expired"
    /\ \A i \in 2..Len(calls) : calls[i].kind = "ok"

\* C9: when the first list call fails with the expired status and the calls that
\* follow succeed, the listing restarts from the empty cursor, the run ends in
\* done once a page that carries no further token has been written, and the
\* totals returned equal the number of matched objects and the number of data
\* entries written (one Bun.write each).
C9_ResnapshotRecovery ==
    ExpiredThenOk =>
        /\ calls[2].sent = NoToken
        /\ (calls[Len(calls)].next = NoToken /\ syncError # "write-failed") =>
              syncPc \in {"writing", "done"}
        /\ syncPc = "failed" => syncError \in {"repeated-token", "write-failed"}
        /\ syncPc = "done" =>
              /\ totals.configMaps = SumOverOkCalls(MatchedIn, Len(calls))
              /\ totals.files = SumOverOkCalls(EntriesIn, Len(calls))
              /\ totals.files = writeOps
              /\ Cardinality(sink) <= totals.files

C9_Witness ==
    /\ ExpiredThenOk
    /\ syncPc = "done"
    /\ Len(calls) >= 3
    /\ totals.configMaps >= 2
    /\ totals.files >= 3

\* Names of the objects of the store that carry / do not carry the
\* interface-bundle annotation value.
AbiNames ==
    UNION {{store[c][j].name :
              j \in {k \in 1..Len(store[c]) :
                        store[c][k].annotation = ARTIFACT_VALUES_abi}} : c \in Cursors}
NonAbiNames ==
    UNION {{store[c][j].name :
              j \in {k \in 1..Len(store[c]) :
                        store[c][k].annotation # ARTIFACT_VALUES_abi}} : c \in Cursors}

\* C10: only objects whose discovery annotation equals the interface-bundle value
\* are written to the sink and counted; objects with the allocation value, another
\* value or no annotation are neither written nor counted. Once the pages
\* received are processed the totals are those of the matched objects.
C10_OnlyAbiWrittenAndCounted ==
    LET matched == SumOverOkCalls(MatchedIn, Len(calls))
        entries == SumOverOkCalls(EntriesIn, Len(calls))
        written == {p[1] : p \in sink}
    IN /\ written \subseteq AbiNames
       /\ written \cap NonAbiNames = {}
       /\ IF syncPc # "writing" /\ syncError # "write-failed"
          THEN totals.configMaps = matched /\ totals.files = entries
          ELSE totals.configMaps <= matched /\ totals.files <= entries

C10_Witness ==
    /\ sink # {}
    /\ totals.configMaps >= 1
    /\ \E i \in OkCalls : \E j \in 1..Len(store[calls[i].sent]) :
          store[calls[i].sent][j].annotation = ARTIFACT_VALUES_alloc
    /\ \E i \in OkCalls : \E j \in 1..Len(store[calls[i].sent]) :
          store[calls[i].sent][j].annotation = NoAnnotation
    /\ \E i \in OkCalls : \E j \in 1..Len(store[calls[i].sent]) :
          store[calls[i].sent][j].annotation = "genesis"

\* Call i failed with the expired-cursor status and the listing was restarted.
Restarted(i) ==
    /\ calls[i].kind = "expired"
    /\ ~(i = Len(calls) /\ syncError = "snapshot-expired")

\* C22: after a list call that failed with the expired-cursor status without
\* exceeding the resnapshot ceiling, the run is listing again with no cursor and
\* no seen tokens; the next list call carries no continuation token, and the
\* seen tokens after it are only what that call returned.
C22_ExpiredCursorRestartsListing ==
    \A i \in 1..Len(calls) :
        Restarted(i) =>
            /\ i = Len(calls) =>
                  /\ syncPc = "listing"
                  /\ continueToken = NoToken
                  /\ seenTokens = {}
            /\ i < Len(calls) => calls[i + 1].sent = NoToken
            /\ (i + 1 = Len(calls) /\ calls[i + 1].kind = "ok" /\ syncPc = "listing") =>
                  /\ seenTokens = {calls[i + 1].next}
                  /\ continueToken = calls[i + 1].next

C22_Witness ==
    \E i \in 1..Len(calls) :
        /\ Restarted(i)
        /\ i >= 3
        /\ calls[i].sent # NoToken
        /\ i + 1 = Len(calls)
        /\ calls[i + 1].kind = "ok"
        /\ calls[i + 1].next \in ReturnedBefore(i)
        /\ syncPc = "listing"

\* A step that issues a list call which fails with a retryable status and is
\* retried.
RetriedStep ==
    /\ Len(calls') = Len(calls) + 1
    /\ calls'[Len(calls')].kind = "retryable"
    /\ syncPc' = "listing"

\* A step that issues the list call following a retried one.
StepAfterRetry ==
    /\ Len(calls) >= 1
    /\ calls[Len(calls)].kind = "retryable"
    /\ Len(calls') = Len(calls) + 1

\* C23: a list call that fails with a retryable status below the retry ceiling
\* leaves the cursor and the seen tokens as they were, and the list call issued
\* next carries the cursor of the failed call.
C23_RetryKeepsCursor ==
    [][/\ RetriedStep =>
             /\ continueToken' = continueToken
             /\ seenTokens' = seenTokens
             /\ calls'[Len(calls')].sent = continueToken
       /\ StepAfterRetry => calls'[Len(calls')].sent = calls[Len(calls)].sent]_vars

C23_Witness ==
    \E i \in 1..Len(calls) :
        /\ calls[i].kind = "retryable"
        /\ calls[i].sent # NoToken
        /\ i + 1 = Len(calls)
        /\ calls[i + 1].sent = calls[i].sent
        /\ calls[i + 1].kind = "ok"
        /\ Cardinality(seenTokens) >= 2

\* The last list call failed with a retryable status and is being retried.
RetryPending ==
    /\ Len(calls) >= 1
    /\ calls[Len(calls)].kind = "retryable"
    /\ syncPc = "listing"

\* C24: the delay waited before a retry is RETRY_BASE_DELAY_MS * 2^attempt, where
\* attempt counts the retries already made since the last successful page (0 for
\* the first retry); the k-th consecutive retry of a list call that follows a
\* successful page or the start waits base * 2^(k-1), and each consecutive retry
\* waits twice the delay of the one before.
C24_RetryDelayDoubles ==
    RetryPending =>
        LET k == RetryableRun(Len(calls))
            delay == pauses[Len(pauses)]
        IN /\ delay = RETRY_BASE_DELAY_MS * 2 ^ (retryAttempts - 1)
           /\ (Len(calls) = k \/ calls[Len(calls) - k].kind = "ok") =>
                 delay = RETRY_BASE_DELAY_MS * 2 ^ (k - 1)
           /\ k >= 2 => delay = 2 * pauses[Len(pauses) - 1]

C24_Witness ==
    /\ RetryPending
    /\ RetryableRun(Len(calls)) = MAX_PAGE_RETRY_ATTEMPTS
    /\ Len(calls) > MAX_PAGE_RETRY_ATTEMPTS
    /\ pauses[Len(pauses)] = 1600
    /\ pauses[Len(pauses) - 2] = 400

\* Number of retryable failures among the calls up to i that follow the last
\* successful call before i.
RECURSIVE RetryableSinceOk(_)
RetryableSinceOk(i) ==
    IF i = 0 \/ calls[i].kind = "ok" THEN 0
    ELSE (IF calls[i].kind = "retryable" THEN 1 ELSE 0) + RetryableSinceOk(i - 1)

\* C25: a successful page resets the retry counter and the resnapshot counter to
\* zero, also when it follows a resnapshot; while the run is listing, each
\* counter equals the number of failures of its kind since the last successful
\* page, so the ceilings bound failures in a row and not failures over the run.
C25_SuccessResetsCounters ==
    /\ (Len(calls) >= 1 /\ calls[Len(calls)].kind = "ok") =>
          retryAttempts = 0 /\ resnapshotAttempts = 0
    /\ syncPc = "listing" =>
          /\ retryAttempts = RetryableSinceOk(Len(calls))
          /\ resnapshotAttempts = ExpiredSinceOk(Len(calls))
    /\ syncError = "snapshot-expired" =>
          ExpiredSinceOk(Len(calls)) > MAX_RESNAPSHOT_ATTEMPTS

\* A run that is still listing after more restarts than the ceiling allows in a
\* row, a successful page having come in between.
C25_Witness ==
    /\ syncPc = "listing"
    /\ Restarts > MAX_RESNAPSHOT_ATTEMPTS
    /\ \E i \in 2..Len(calls) :
          /\ calls[i].kind = "ok"
          /\ calls[i - 1].kind = "expired"
          /\ \E j \in 1..(i - 1) : calls[j].kind = "retryable"

\* What the loop decides on, as it stands after call i when that call did not end
\* the run: the cursor, the seen tokens and the two attempt counters.
ControlAfter(i) ==
    [cursor |-> IF calls[i].kind = "ok" THEN calls[i].next
                ELSE IF calls[i].kind = "expired" THEN NoToken
                ELSE calls[i].sent,
     seen |-> IF calls[i].kind = "ok" THEN ReturnedBefore(i) \cup {calls[i].next}
              ELSE IF calls[i].kind = "expired" THEN {}
              ELSE ReturnedBefore(i),
     retries |-> RetryableSinceOk(i),
     resnapshots |-> ExpiredSinceOk(i)]

\* The run went on after call i.
WentOn(i) == i < Len(calls) \/ syncPc = "listing"

\* Length of the run of consecutive failed calls that ends with call i.
RECURSIVE FailuresSinceOk(_)
FailuresSinceOk(i) ==
    IF i = 0 \/ calls[i].kind = "ok" THEN 0 ELSE 1 + FailuresSinceOk(i - 1)

\* Number of successful calls of the listing of call i up to call i.
OkInListing(i) ==
    Cardinality({j \in ListingStart(i)..i : calls[j].kind = "ok"})

\* The longest run of consecutive failed calls: every retry, every restart, and
\* the failure that ends the run.
MaxFailuresInARow == MAX_PAGE_RETRY_ATTEMPTS + MAX_RESNAPSHOT_ATTEMPTS + 1

\* C28 as stated: every run ends after a bounded number of list calls, whatever
\* the store answers. The loop decides on its control state and the answer only,
\* so a run that is to end whatever is answered never comes back to a control
\* state it has already been in.
C28_ControlStateNeverRecurs ==
    \A i, j \in 1..Len(calls) :
        (i < j /\ WentOn(j)) => ControlAfter(i) # ControlAfter(j)

\* C28 amended: the run is bounded between successful pages and within a
\* listing. At most MAX_PAGE_RETRY_ATTEMPTS + MAX_RESNAPSHOT_ATTEMPTS failed
\* calls in a row leave the run listing, and the next failed call ends it as
\* failed; a listing that is not restarted has at most one successful call per
\* continuation token and one more, which ends the run. It is stated of the
\* call made last and the one before it: the history only grows, so every
\* call is the last one of some state.
C28_BoundedBetweenSuccesses ==
    Len(calls) >= 1 =>
        LET last == Len(calls)
            failures == FailuresSinceOk(last)
            pages == OkInListing(last)
        IN /\ syncPc = "listing" =>
                 ControlAfter(last) =
                     [cursor |-> continueToken, seen |-> seenTokens,
                      retries |-> retryAttempts, resnapshots |-> resnapshotAttempts]
           /\ failures <= MaxFailuresInARow
           /\ failures = MaxFailuresInARow => syncPc = "failed"
           /\ pages <= Cardinality(Tokens) + 1
           /\ (calls[last].kind = "ok" /\ pages = Cardinality(Tokens) + 1) =>
                 syncPc \in {"writing", "done", "failed"}
           /\ last >= 2 =>
                 /\ FailuresSinceOk(last - 1) < MaxFailuresInARow
                 /\ ~(/\ calls[last - 1].kind = "ok"
                      /\ OkInListing(last - 1) = Cardinality(Tokens) + 1)

C28_Witness ==
    /\ syncPc = "failed"
    /\ FailuresSinceOk(Len(calls)) = MaxFailuresInARow
    /\ RetryableSinceOk(Len(calls)) >= MAX_PAGE_RETRY_ATTEMPTS
    /\ ExpiredSinceOk(Len(calls)) >= MAX_RESNAPSHOT_ATTEMPTS

\* The cursors of the pages the run has received and processed.
PagesRead == {calls[i].sent : i \in OkCalls}

\* Matched objects, and their data entries, of a set of pages, each page once.
RECURSIVE MatchedOnce(_)
MatchedOnce(pages) ==
    IF pages = {} THEN 0
    ELSE LET c == CHOOSE x \in pages : TRUE
         IN MatchedIn(store[c]) + MatchedOnce(pages \ {c})
RECURSIVE EntriesOnce(_)
EntriesOnce(pages) ==
    IF pages = {} THEN 0
    ELSE LET c == CHOOSE x \in pages : TRUE
         IN EntriesIn(store[c]) + EntriesOnce(pages \ {c})

\* The cursor expired after a page had been processed.
ExpiredAfterPage ==
    \E i, j \in 1..Len(calls) : i < j /\ calls[i].kind = "ok" /\ calls[j].kind = "expired"

\* C29 as stated: when the cursor expired after one or more pages had been
\* processed, the totals returned at done count every matched object and every
\* data entry of the pages read exactly once, however often a page was read.
C29_TotalsCountOnce ==
    (syncPc = "done" /\ ExpiredAfterPage) =>
        /\ totals.configMaps = MatchedOnce(PagesRead)
        /\ totals.files = EntriesOnce(PagesRead)

(***************************************************************************)
(* Part II - Artifact Publisher                                            *)
(***************************************************************************)
HTTP_CONFLICT_STATUS == 409
ZERO_BALANCE == "0x0"
HEX_PREFIX == <<"0", "x">>
SUBGRAPH_HASH_KEY == "SUBGRAPH_HASH"
\* payload.subgraphHash === undefined
NoHash == ""

\* ARTIFACT_DEFAULTS
DefaultArtifactNames ==
    [faucetPrefix |-> "besu-faucet",
     validatorPrefix |-> "besu-node-validator",
     genesisConfigMapName |-> "besu-genesis",
     staticNodesConfigMapName |-> "besu-static-nodes",
     subgraphConfigMapName |-> "besu-subgraph"]

\* Number.prototype.toString for the ordinals of a name, digit by digit.
Digits == <<"0", "1", "2", "3", "4", "5", "6", "7", "8", "9">>
RECURSIVE NumberText(_)
NumberText(n) ==
    IF n < 0 THEN <<"-">> \o NumberText(0 - n)
    ELSE IF n < 10 THEN <<Digits[n + 1]>>
    ELSE NumberText(n \div 10) \o <<Digits[(n % 10) + 1]>>

\* String.prototype.toLowerCase: the letters A to Z become a to z, every other
\* character of the texts that are explored is kept.
UpperCaseLetters ==
    <<"A", "B", "C", "D", "E", "F", "G", "H", "I", "J", "K", "L", "M",
      "N", "O", "P", "Q", "R", "S", "T", "U", "V", "W", "X", "Y", "Z">>
LowerCaseLetters ==
    <<"a", "b", "c", "d", "e", "f", "g", "h", "i", "j", "k", "l", "m",
      "n", "o", "p", "q", "r", "s", "t", "u", "v", "w", "x", "y", "z">>
LowerChar(c) ==
    IF \E n \in 1..Len(UpperCaseLetters) : UpperCaseLetters[n] = c
    THEN LowerCaseLetters[CHOOSE n \in 1..Len(UpperCaseLetters) : UpperCaseLetters[n] = c]
    ELSE c
ToLowerCase(text) == [i \in 1..Len(text) |-> LowerChar(text[i])]

\* addressesEqual
addressesEqual(left, right) == ToLowerCase(left) = ToLowerCase(right)

\* toAllocationConfigMapName: `alloc-${normalized}`, normalized being the
\* lower-cased address without its 0x prefix
StartsWithHexPrefix(address) ==
    Len(address) >= 2 /\ SubSeq(address, 1, 2) = HEX_PREFIX
\* the record name keeping the case of the address digits
toAllocationConfigMapNameKeepingCase(address) ==
    <<"alloc-">> \o
    (IF StartsWithHexPrefix(address) THEN SubSeq(address, 3, Len(address)) ELSE address)

toAllocationConfigMapName(address) ==
    <<"alloc-">> \o
    (IF StartsWithHexPrefix(address)
     THEN ToLowerCase(SubSeq(address, 3, Len(address)))
     ELSE ToLowerCase(address))

\* Key material as the key factory hands it over: addresses are hex text, the
\* other fields opaque text tagged with what they are and whose they are.
ValidatorAddress(i) == <<"0", "x", "A", "a">> \o NumberText(i)
FaucetAddress == <<"0", "x", "F", "a", "C", "e">>
ValidatorNode(i) ==
    [index |-> i,
     address |-> ValidatorAddress(i),
     publicKey |-> <<"publicKey", "validator">> \o NumberText(i),
     privateKey |-> <<"privateKey", "validator">> \o NumberText(i),
     enode |-> <<"enode", "validator">> \o NumberText(i)]
FaucetNode ==
    [address |-> FaucetAddress,
     publicKey |-> <<"publicKey", "faucet">>,
     privateKey |-> <<"privateKey", "faucet">>,
     enode |-> <<"enode", "faucet">>]

\* generateGroup: nodes with the one-based index of their generation
generateGroup(count) == [k \in 1..count |-> ValidatorNode(k)]

\* An allocation map is kept in insertion order, as Object.entries reads it.
AllocEntry(address, account) == [address |-> address, account |-> account]
FaucetAllocEntry ==
    AllocEntry(FaucetAddress, [balance |-> "0x446c3b15f9926687d2c40534fdb564000000000000"])
ExtraAllocEntry ==
    AllocEntry(<<"0", "x", "0", "B", "c", "D">>, [balance |-> "0x64", code |-> "0x6000"])

AbiArtifact ==
    [configMapName |-> <<"abi-token">>, fileName |-> "Token.json",
     contents |-> <<"abi", "Token">>]

\* createSparseAlloc keeping the faucet entry only
createSparseAllocFaucetOnly(alloc, faucetAddress) ==
    SelectSeq(alloc, LAMBDA entry : addressesEqual(entry.address, faucetAddress))

\* createSparseAlloc
createSparseAlloc(alloc, faucetAddress) ==
    [i \in 1..Len(alloc) |->
        IF addressesEqual(alloc[i].address, faucetAddress)
        THEN alloc[i]
        ELSE AllocEntry(alloc[i].address, [balance |-> ZERO_BALANCE])]

\* A record spec. onConflict "unset" and annotation NoAnnotation stand for the
\* fields being left out of the spec object.
RecordSpec(name, key, value, immutable, onConflict, annotation) ==
    [name |-> name, key |-> key, value |-> value, immutable |-> immutable,
     onConflict |-> onConflict, annotation |-> annotation]
PlainSpec(name, key, value) == RecordSpec(name, key, value, FALSE, "unset", NoAnnotation)

\* createAllocationConfigSpecs
RECURSIVE createAllocationConfigSpecs(_, _)
createAllocationConfigSpecs(alloc, faucetAddress) ==
    IF alloc = <<>> THEN <<>>
    ELSE (IF addressesEqual(Head(alloc).address, faucetAddress)
          THEN <<>>
          ELSE <<RecordSpec(toAllocationConfigMapName(Head(alloc).address), "alloc.json",
                            <<"alloc.json", Head(alloc).account>>, TRUE, "skip",
                            ARTIFACT_VALUES_alloc)>>)
         \o createAllocationConfigSpecs(Tail(alloc), faucetAddress)

\* createAbiConfigSpecs
createAbiConfigSpecs(artifacts) ==
    [i \in 1..Len(artifacts) |->
        RecordSpec(artifacts[i].configMapName, artifacts[i].fileName,
                   artifacts[i].contents, TRUE, "skip", ARTIFACT_VALUES_abi)]

\* the specs of a node named after its one-based index
ValidatorSpecsOfOneBased(node, validatorPrefix) ==
    LET base == <<validatorPrefix, "-">> \o NumberText(node.index)
    IN <<PlainSpec(base \o <<"-address">>, "address", node.address),
         PlainSpec(base \o <<"-private-key">>, "privateKey", node.privateKey),
         PlainSpec(base \o <<"-enode">>, "enode", node.enode),
         PlainSpec(base \o <<"-pubkey">>, "publicKey", node.publicKey)>>

\* createValidatorSpecs: four specs per node, named after the zero-based ordinal
ValidatorSpecsOf(node, validatorPrefix) ==
    LET ordinal == node.index - 1
        base == <<validatorPrefix, "-">> \o NumberText(ordinal)
    IN <<PlainSpec(base \o <<"-address">>, "address", node.address),
         PlainSpec(base \o <<"-private-key">>, "privateKey", node.privateKey),
         PlainSpec(base \o <<"-enode">>, "enode", node.enode),
         PlainSpec(base \o <<"-pubkey">>, "publicKey", node.publicKey)>>
RECURSIVE createValidatorSpecs(_, _)
createValidatorSpecs(nodes, validatorPrefix) ==
    IF nodes = <<>> THEN <<>>
    ELSE ValidatorSpecsOf(Head(nodes), validatorPrefix)
         \o createValidatorSpecs(Tail(nodes), validatorPrefix)

\* createFaucetConfigSpecs
createFaucetConfigSpecs(faucet, prefix) ==
    <<PlainSpec(<<prefix, "-address">>, "address", faucet.address),
      PlainSpec(<<prefix, "-pubkey">>, "publicKey", faucet.publicKey)>>

\* createFaucetSecretSpecs
createFaucetSecretSpecs(faucet, prefix) ==
    <<PlainSpec(<<prefix, "-private-key">>, "privateKey", faucet.privateKey)>>

\* a filter that lets every spec through
IsAnySpec(spec) == TRUE

\* the filter of configMapSpecs: spec.key !== "privateKey"
IsPublicSpec(spec) == spec.key # "privateKey"

\* the filter of secretSpecs: spec.key === "privateKey"
IsPrivateKeySpec(spec) == spec.key = "privateKey"

\* outputToKubernetes: the genesis written in minimal mode
minimalGenesis(p) ==
    [p.genesis EXCEPT !.alloc = createSparseAlloc(p.genesis.alloc, p.faucet.address)]

\* outputToKubernetes: configMapSpecs
configMapSpecs(p) ==
    LET names == p.artifactNames
        allSpecs == createValidatorSpecs(p.validators, names.validatorPrefix)
    IN SelectSeq(allSpecs, IsPublicSpec)
       \o createFaucetConfigSpecs(p.faucet, names.faucetPrefix)
       \o <<RecordSpec(<<names.genesisConfigMapName>>, "genesis.json",
                       <<"genesis.json", minimalGenesis(p)>>, TRUE, "skip", NoAnnotation)>>
       \o <<PlainSpec(<<names.staticNodesConfigMapName>>, "static-nodes.json",
                      <<"static-nodes.json", p.staticNodes>>)>>
       \o createAbiConfigSpecs(p.abiArtifacts)
       \o createAllocationConfigSpecs(p.genesis.alloc, p.faucet.address)
       \o (IF p.subgraphHash # NoHash
           THEN <<RecordSpec(<<names.subgraphConfigMapName>>, SUBGRAPH_HASH_KEY,
                             <<"subgraph", p.subgraphHash>>, TRUE, "skip", NoAnnotation)>>
           ELSE <<>>)

\* outputToKubernetes: secretSpecs
secretSpecs(p) ==
    LET names == p.artifactNames
        allSpecs == createValidatorSpecs(p.validators, names.validatorPrefix)
    IN SelectSeq(allSpecs, IsPrivateKeySpec)
       \o createFaucetSecretSpecs(p.faucet, names.faucetPrefix)

\* Records of a run are identified by store primitive and position in their list.
Primitives == {"configMap", "secret"}
IdsOf(primitive) == {<<primitive, i>> : i \in 1..Len(specs[primitive])}
RecordIds == IdsOf("configMap") \cup IdsOf("secret")
SpecOf(r) == specs[r[1]][r[2]]

\* the create call createConfigMap / createSecret sends for a spec
CreateCall(primitive, spec) ==
    [primitive |-> primitive, name |-> spec.name, key |-> spec.key, value |-> spec.value,
     immutable |-> spec.immutable, annotation |-> spec.annotation]
CreateCalls(primitive, list) == [i \in 1..Len(list) |-> CreateCall(primitive, list[i])]

\* createConfigMap / createSecret skipping on every conflict
CreateOutcomeAlwaysSkip(reply, onConflict) ==
    CASE reply = "ok" -> "created"
      [] reply = "conflict" -> "skippedConflict"
      [] OTHER -> "failed"

\* createConfigMap / createSecret: what becomes of the record for the store's
\* reply. "conflict" is getStatusCode(error) === HTTP_CONFLICT_STATUS.
CreateOutcome(reply, onConflict) ==
    CASE reply = "ok" -> "created"
      [] reply = "conflict" /\ onConflict = "skip" -> "skippedConflict"
      [] OTHER -> "failed"

\* createConfigMap / createSecret returning true also for a skipped record
CreateResultCountsSkipped(outcome) == outcome \in {"created", "skippedConflict"}

\* createConfigMap / createSecret: the boolean the promise resolves with
CreateResult(outcome) == outcome = "created"

\* the permission probe passing on the ConfigMap list call alone
ProbePassedConfigMapOnly(pr) == pr.configMap = "ok"

\* createKubernetesClient: Promise.all of the two list calls resolved
ProbePassed(pr) == pr.configMap = "ok" /\ pr.secret = "ok"

\* Promise.all over the create calls of the given records resolved
BatchResolved(states, ids) == \A r \in ids : states[r] \in {"created", "skippedConflict"}

\* Store replies other than success seen so far in the run.
Faults ==
    Cardinality({r \in DOMAIN recReply : recReply[r] \in {"conflict", "error"}})
    + Cardinality({q \in Primitives : probe[q] = "error"})

\* Numbers of validators of the payloads that are explored. Every validator adds
\* four concurrent create calls to a run.
ValidatorCounts == {1}

\* Optional parts of a payload that are explored, one at a time.
Extras == {"none", "abi", "alloc", "subgraph"}
Payload(count, extra) ==
    [validators |-> generateGroup(count),
     faucet |-> FaucetNode,
     genesis |-> [alloc |-> IF extra = "alloc"
                             THEN <<FaucetAllocEntry, ExtraAllocEntry>>
                             ELSE <<FaucetAllocEntry>>],
     staticNodes |-> [k \in 1..count |-> ValidatorNode(k).enode],
     artifactNames |-> DefaultArtifactNames,
     abiArtifacts |-> IF extra = "abi" THEN <<AbiArtifact>> ELSE <<>>,
     subgraphHash |-> IF extra = "subgraph" THEN "QmHash" ELSE NoHash]

NoSpecs == [configMap |-> <<>>, secret |-> <<>>]

PubInit ==
    /\ payload \in {Payload(count, extra) : count \in ValidatorCounts, extra \in Extras}
    /\ pubPc = "start"
    /\ pubError = "none"
    /\ probe = [configMap |-> "idle", secret |-> "idle"]
    /\ specs = NoSpecs
    /\ recState = <<>>
    /\ recReply = <<>>
    /\ createLog = <<>>
    /\ skipLog = {}
    /\ applied = <<>>

PubIdle ==
    /\ payload = <<>>
    /\ pubPc = "idle"
    /\ pubError = "none"
    /\ probe = [configMap |-> "idle", secret |-> "idle"]
    /\ specs = NoSpecs
    /\ recState = <<>>
    /\ recReply = <<>>
    /\ createLog = <<>>
    /\ skipLog = {}
    /\ applied = <<>>

SyncIdle ==
    /\ store = <<>>
    /\ syncPc = "idle"
    /\ syncError = "none"
    /\ continueToken = NoToken
    /\ retryAttempts = 0
    /\ resnapshotAttempts = 0
    /\ seenTokens = {}
    /\ totals = [configMaps |-> 0, files |-> 0]
    /\ sink = {}
    /\ writeOps = 0
    /\ writing = NoWrite
    /\ pauses = <<>>
    /\ calls = <<>>

\* createKubernetesClient up to its await: the service-account credentials and the
\* namespace are read, then both probe list calls are issued together.
CreateKubernetesClient(credentialsOk) ==
    /\ pubPc = "start"
    /\ IF credentialsOk
       THEN /\ pubPc' = "probing"
            /\ probe' = [configMap |-> "inflight", secret |-> "inflight"]
            /\ UNCHANGED pubError
       ELSE /\ pubPc' = "failed"
            /\ pubError' = "credentials"
            /\ UNCHANGED probe
    /\ UNCHANGED <<payload, specs, recState, recReply, createLog, skipLog, applied>>
    /\ UNCHANGED <<syncVars, asmVars, cgVars>>

\* The store rejects one of the probe list calls. While the probe is awaited the
\* Promise.all rejects and createKubernetesClient throws: the run fails.
ProbeCallFails(q) ==
    /\ probe[q] = "inflight"
    /\ Faults < MaxFaults
    /\ probe' = [probe EXCEPT ![q] = "error"]
    /\ IF pubPc = "probing"
       THEN pubPc' = "failed" /\ pubError' = "permissions"
       ELSE UNCHANGED <<pubPc, pubError>>
    /\ UNCHANGED <<payload, specs, recState, recReply, createLog, skipLog, applied>>
    /\ UNCHANGED <<syncVars, asmVars, cgVars>>

\* The store answers one of the probe list calls. When that resolves the
\* Promise.all, createKubernetesClient returns and outputToKubernetes runs up to
\* its first await: the specs are built and every ConfigMap create call is issued.
ProbeCallSucceeds(q) ==
    /\ probe[q] = "inflight"
    /\ probe' = [probe EXCEPT ![q] = "ok"]
    /\ IF pubPc = "probing" /\ ProbePassed(probe')
       THEN LET built == [configMap |-> configMapSpecs(payload),
                          secret |-> secretSpecs(payload)]
            IN /\ specs' = built
               /\ pubPc' = "configMaps"
               /\ recState' =
                     [r \in {<<"configMap", i>> : i \in 1..Len(built.configMap)} \cup
                            {<<"secret", i>> : i \in 1..Len(built.secret)} |->
                        IF r[1] = "configMap" THEN "attempting" ELSE "pending"]
               /\ recReply' =
                     [r \in {<<"configMap", i>> : i \in 1..Len(built.configMap)} \cup
                            {<<"secret", i>> : i \in 1..Len(built.secret)} |-> "none"]
               /\ createLog' = createLog \o CreateCalls("configMap", built.configMap)
       ELSE UNCHANGED <<specs, pubPc, recState, recReply, createLog>>
    /\ UNCHANGED <<payload, pubError, skipLog, applied>>
    /\ UNCHANGED <<syncVars, asmVars, cgVars>>

\* The store answers the create call of record r: createConfigMap / createSecret
\* resolves or rejects, and the Promise.all the run awaits settles with it. A
\* rejection fails the run; the last resolution of the ConfigMap batch issues
\* every Secret create call; the last resolution of the Secret batch takes the
\* counts and ends the run. Replies that arrive after the run failed only
\* settle their own record.
CreateReply(r, reply) ==
    /\ recState[r] = "attempting"
    /\ reply = "ok" \/ Faults < MaxFaults
    /\ LET outcome == CreateOutcome(reply, SpecOf(r).onConflict)
           settled == [recState EXCEPT ![r] = outcome]
           awaited == pubPc = (IF r[1] = "configMap" THEN "configMaps" ELSE "secrets")
       IN /\ recReply' = [recReply EXCEPT ![r] = reply]
          /\ skipLog' = IF outcome = "skippedConflict"
                        THEN skipLog \cup {SpecOf(r).name}
                        ELSE skipLog
          /\ IF awaited /\ outcome = "failed"
             THEN /\ pubPc' = "failed"
                  /\ pubError' = "create-failed"
                  /\ recState' = settled
                  /\ UNCHANGED <<createLog, applied>>
             ELSE IF awaited /\ BatchResolved(settled, IdsOf(r[1]))
             THEN IF r[1] = "configMap"
                  THEN /\ pubPc' = "secrets"
                       /\ recState' = [x \in DOMAIN settled |->
                                         IF x[1] = "secret" THEN "attempting" ELSE settled[x]]
                       /\ createLog' = createLog \o CreateCalls("secret", specs.secret)
                       /\ UNCHANGED <<pubError, applied>>
                  ELSE /\ pubPc' = "done"
                       /\ recState' = settled
                       /\ applied' =
                             [configMaps |->
                                Cardinality({x \in IdsOf("configMap") : CreateResult(settled[x])}),
                              secrets |->
                                Cardinality({x \in IdsOf("secret") : CreateResult(settled[x])})]
                       /\ UNCHANGED <<pubError, createLog>>
             ELSE /\ recState' = settled
                  /\ UNCHANGED <<pubPc, pubError, createLog, applied>>
    /\ UNCHANGED <<payload, probe, specs>>
    /\ UNCHANGED <<syncVars, asmVars, cgVars>>

PubNext ==
    \/ \E credentialsOk \in BOOLEAN : CreateKubernetesClient(credentialsOk)
    \/ \E q \in Primitives : ProbeCallFails(q)
    \/ \E q \in Primitives : ProbeCallSucceeds(q)
    \/ \E r \in DOMAIN recState, reply \in {"ok", "conflict", "error"} : CreateReply(r, reply)

(***************************************************************************)
(* Properties of the Publisher                                             *)
(***************************************************************************)
\* The store reported "already exists" for record r and its policy is skip.
SkipConflict(r) == recReply[r] = "conflict" /\ SpecOf(r).onConflict = "skip"

\* The store reported "already exists" for record r whose policy is not skip, or
\* reported another error.
FatalReply(r) ==
    \/ recReply[r] = "conflict" /\ SpecOf(r).onConflict # "skip"
    \/ recReply[r] = "error"

\* C2: both probe list calls (ConfigMap and Secret) have succeeded before any
\* create call is issued, and once a probe call has failed the run has failed
\* and no create call is ever issued.
C2_ProbeBeforeCreate ==
    /\ createLog # <<>> => probe.configMap = "ok" /\ probe.secret = "ok"
    /\ pubPc \in {"configMaps", "secrets", "done"} =>
          probe.configMap = "ok" /\ probe.secret = "ok"
    /\ (\E q \in Primitives : probe[q] = "error") =>
          /\ pubPc = "failed"
          /\ pubError = "permissions"
          /\ createLog = <<>>
          /\ DOMAIN recState = {}

C2_Witness ==
    /\ pubPc = "failed"
    /\ probe.configMap = "ok"
    /\ probe.secret = "error"
    /\ createLog = <<>>

\* C3: a record whose policy is skip and for which the store reports "already
\* exists" ends as skippedConflict and is logged as skipped; it never fails the
\* run (a run in which every reply is a success or such a conflict completes),
\* and the counts reported at completion leave it out.
C3_SkipConflictIsNotAnError ==
    /\ \A r \in DOMAIN recReply :
          SkipConflict(r) => recState[r] = "skippedConflict" /\ SpecOf(r).name \in skipLog
    /\ pubError = "create-failed" => \E r \in DOMAIN recReply : FatalReply(r)
    /\ (DOMAIN recReply # {} /\ \A r \in DOMAIN recReply : recReply[r] = "ok" \/ SkipConflict(r))
          => pubPc = "done"
    /\ pubPc = "done" =>
          /\ applied.configMaps =
                Cardinality({r \in IdsOf("configMap") : recReply[r] = "ok"})
          /\ applied.secrets =
                Cardinality({r \in IdsOf("secret") : recReply[r] = "ok"})

C3_Witness ==
    /\ pubPc = "done"
    /\ \E r \in DOMAIN recReply : SkipConflict(r) /\ recState[r] = "skippedConflict"
    /\ applied.configMaps < Len(specs.configMap)

\* C4: a run that succeeded has every record created or skippedConflict; a
\* record for which the store reports "already exists" under a policy other than
\* skip, or any other error, is failed and the run with it.
C4_RunSucceedsOnlyIfEveryRecordDoes ==
    /\ pubPc = "done" =>
          \A r \in DOMAIN recState : recState[r] \in {"created", "skippedConflict"}
    /\ \A r \in DOMAIN recReply :
          FatalReply(r) =>
             /\ recState[r] = "failed"
             /\ pubPc = "failed"
             /\ pubError = "create-failed"
             /\ applied = <<>>

C4_Witness ==
    /\ pubPc = "failed"
    /\ \E r \in DOMAIN recReply : recReply[r] = "conflict" /\ SpecOf(r).onConflict = "unset"
    /\ \E r \in DOMAIN recReply : SkipConflict(r)

\* C5 as stated: the create calls of all records are issued together, so as soon
\* as the outcome of one record's create call is known no record's create call
\* is still waiting to be issued.
C5_AllCreatesIssuedConcurrently ==
    \A r \in DOMAIN recState :
        (\E other \in DOMAIN recReply : recReply[other] # "none") => recState[r] # "pending"

\* The private keys a payload carries.
PrivateKeys(p) ==
    {p.validators[k].privateKey : k \in 1..Len(p.validators)} \cup {p.faucet.privateKey}
IsPrivateKey(value) == \E secretKey \in PrivateKeys(payload) : value = secretKey

\* C6: every create call that carries a private key (validator or faucet) goes to
\* the Secret primitive, every other record goes to the ConfigMap primitive, and
\* a completed run has sent every private key to the Secret primitive.
C6_SensitiveRecordsOnlyAsSecrets ==
    /\ \A i \in 1..Len(createLog) :
          /\ createLog[i].primitive = "configMap" =>
                ~IsPrivateKey(createLog[i].value) /\ createLog[i].key # "privateKey"
          /\ createLog[i].primitive = "secret" =>
                IsPrivateKey(createLog[i].value) /\ createLog[i].key = "privateKey"
    /\ pubPc = "done" =>
          \A secretKey \in PrivateKeys(payload) :
             \E i \in 1..Len(createLog) :
                createLog[i].primitive = "secret" /\ createLog[i].value = secretKey

C6_Witness ==
    /\ pubPc = "done"
    /\ \E i \in 1..Len(createLog) :
          createLog[i].primitive = "secret" /\ createLog[i].value = payload.faucet.privateKey
    /\ \E i \in 1..Len(createLog) :
          createLog[i].primitive = "secret" /\ createLog[i].value = payload.validators[1].privateKey
    /\ \E i \in 1..Len(createLog) : createLog[i].primitive = "configMap"

\* The outcomes a record ends with.
TerminalOutcomes == {"created", "skippedConflict", "failed"}

\* C21 as stated: whenever the run has decided (done, or failed on a create), every
\* record has been attempted and has reached created, skippedConflict or failed:
\* one record's failure does not keep the others from being attempted and
\* collected.
C21_DecidedAfterEveryOutcome ==
    (pubPc = "done" \/ pubError = "create-failed") =>
        \A r \in DOMAIN recState : recState[r] \in TerminalOutcomes

(***************************************************************************)
(* Part III - Genesis Assembler and Validator Extra-Data Encoder           *)
(***************************************************************************)
ALGORITHM_ibftV2 == "IBFTv2"
ALGORITHM_qbft == "QBFT"
Algorithms == {ALGORITHM_ibftV2, ALGORITHM_qbft}

\* Hex text is a sequence of characters.
Zeros(n) == [i \in 1..n |-> "0"]
VANITY_DATA == HEX_PREFIX \o Zeros(64)
EMPTY_HEX == HEX_PREFIX
ROUND_ZERO == HEX_PREFIX \o Zeros(8)
MIX_HASH == "0x63746963616c2062797a616e74696e65206661756c7420746f6c6572616e6365"
COINBASE_ZERO == HEX_PREFIX \o Zeros(40)
FAUCET_BALANCE == "0x446c3b15f9926687d2c40534fdb564000000000000"
MINIMUM_BFT_BLOCK_PERIOD_SECONDS == 60
MINIMUM_ROUND_BUFFER_SECONDS == 5
\* ROUND_TIMEOUT_MULTIPLIER = 1.33, in hundredths
ROUND_TIMEOUT_MULTIPLIER_HUNDREDTHS == 133
\* constructor(defaultChainId = 0)
DefaultChainId == 0

Max(a, b) == IF a >= b THEN a ELSE b

\* config.key ?? fallback, for a key the config may leave out
Nullish(config, key, fallback) == IF key \in DOMAIN config THEN config[key] ELSE fallback

\* key: config.key in an object literal; a key left out of the config yields
\* undefined, which the serialized document does not carry
EmptyObject == [k \in {} |-> 0]
Passed(config, key) == IF key \in DOMAIN config THEN key :> config[key] ELSE EmptyObject

\* generateBft with the multiplier taken as ceil(1.33 * blockPeriod)
generateBftRoundingUp(config) ==
    [blockperiodseconds |-> config.secondsPerBlock,
     epochlength |-> 30000,
     xemptyblockperiodseconds |-> MINIMUM_BFT_BLOCK_PERIOD_SECONDS,
     requesttimeoutseconds |->
        Max(MINIMUM_BFT_BLOCK_PERIOD_SECONDS, config.secondsPerBlock)
        + Max(MINIMUM_ROUND_BUFFER_SECONDS,
              (config.secondsPerBlock * ROUND_TIMEOUT_MULTIPLIER_HUNDREDTHS + 99) \div 100)]

\* generateBft taking the smaller of the round buffer and the scaled period
generateBftSmallerBuffer(config) ==
    [blockperiodseconds |-> config.secondsPerBlock,
     epochlength |-> 30000,
     xemptyblockperiodseconds |-> MINIMUM_BFT_BLOCK_PERIOD_SECONDS,
     requesttimeoutseconds |->
        (100 * Max(MINIMUM_BFT_BLOCK_PERIOD_SECONDS, config.secondsPerBlock)
         + (IF 100 * MINIMUM_ROUND_BUFFER_SECONDS
                 <= config.secondsPerBlock * ROUND_TIMEOUT_MULTIPLIER_HUNDREDTHS
            THEN 100 * MINIMUM_ROUND_BUFFER_SECONDS
            ELSE config.secondsPerBlock * ROUND_TIMEOUT_MULTIPLIER_HUNDREDTHS)) \div 100]

\* generateBft: Math.floor(Math.max(60, b) + Math.max(5, b * 1.33)), computed in
\* hundredths of a second
generateBft(config) ==
    [blockperiodseconds |-> config.secondsPerBlock,
     epochlength |-> 30000,
     xemptyblockperiodseconds |-> MINIMUM_BFT_BLOCK_PERIOD_SECONDS,
     requesttimeoutseconds |->
        (100 * Max(MINIMUM_BFT_BLOCK_PERIOD_SECONDS, config.secondsPerBlock)
         + Max(100 * MINIMUM_ROUND_BUFFER_SECONDS,
               config.secondsPerBlock * ROUND_TIMEOUT_MULTIPLIER_HUNDREDTHS)) \div 100]

\* buildConsensusConfig writing both sub-blocks
buildConsensusConfigBoth(algorithm, config) ==
    [ibft2 |-> generateBft(config), qbft |-> generateBft(config)]

\* buildConsensusConfig
buildConsensusConfig(algorithm, config) ==
    IF algorithm = ALGORITHM_ibftV2
    THEN [ibft2 |-> generateBft(config)]
    ELSE [qbft |-> generateBft(config)]

\* { ...alloc, [entry.address]: entry.account }: an existing key keeps its place
\* and takes the new value, a new key goes last
AllocPut(alloc, entry) ==
    IF \E i \in 1..Len(alloc) : alloc[i].address = entry.address
    THEN [i \in 1..Len(alloc) |->
            IF alloc[i].address = entry.address THEN entry ELSE alloc[i]]
    ELSE Append(alloc, entry)

RECURSIVE AllocSpread(_, _)
AllocSpread(alloc, more) ==
    IF more = <<>> THEN alloc
    ELSE AllocSpread(AllocPut(alloc, Head(more)), Tail(more))

\* buildAlloc with the faucet entry written after the extra allocations
buildAllocFaucetLast(faucetWalletAddress, extraAllocations) ==
    AllocSpread(extraAllocations,
                <<AllocEntry(faucetWalletAddress, [balance |-> FAUCET_BALANCE])>>)

\* buildAlloc
buildAlloc(faucetWalletAddress, extraAllocations) ==
    AllocSpread(<<AllocEntry(faucetWalletAddress, [balance |-> FAUCET_BALANCE])>>,
                extraAllocations)

\* zeroBaseFee as config.gasPrice === 0
zeroBaseFeeStrict(config) == "gasPrice" \in DOMAIN config /\ config.gasPrice = 0

\* zeroBaseFee: (config.gasPrice ?? 0) === 0
zeroBaseFee(config) == Nullish(config, "gasPrice", 0) = 0

\* generate
generate(algorithm, config, extraAllocations) ==
    [config |->
        [chainId |-> Nullish(config, "chainId", DefaultChainId),
         homesteadBlock |-> 0, eip150Block |-> 0, eip150Hash |-> VANITY_DATA,
         eip155Block |-> 0, eip158Block |-> 0, byzantiumBlock |-> 0,
         constantinopleBlock |-> 0, petersburgBlock |-> 0, istanbulBlock |-> 0,
         muirGlacierBlock |-> 0, berlinBlock |-> 0, londonBlock |-> 0,
         shanghaiTime |-> 0, cancunTime |-> 0,
         zeroBaseFee |-> zeroBaseFee(config)]
        @@ Passed(config, "contractSizeLimit")
        @@ Passed(config, "evmStackSize")
        @@ buildConsensusConfig(algorithm, config),
     nonce |-> "0x0",
     timestamp |-> "0x0",
     gasLimit |-> config.gasLimit,
     difficulty |-> "0x1",
     mixHash |-> MIX_HASH,
     coinbase |-> COINBASE_ZERO,
     alloc |-> buildAlloc(config.faucetWalletAddress, extraAllocations),
     extraData |-> <<>>]


\* ---- Hex, Bytes and Rlp of the ox library, as computeExtraData uses them ----
HexDigits == <<"0", "1", "2", "3", "4", "5", "6", "7", "8", "9",
               "a", "b", "c", "d", "e", "f">>
\* the value of a hex digit, or NotHexDigit
NotHexDigit == 0 - 1
HexDigitValue(c) ==
    CASE c = "0" -> 0 [] c = "1" -> 1 [] c = "2" -> 2 [] c = "3" -> 3
      [] c = "4" -> 4 [] c = "5" -> 5 [] c = "6" -> 6 [] c = "7" -> 7
      [] c = "8" -> 8 [] c = "9" -> 9
      [] c \in {"a", "A"} -> 10 [] c \in {"b", "B"} -> 11 [] c \in {"c", "C"} -> 12
      [] c \in {"d", "D"} -> 13 [] c \in {"e", "E"} -> 14 [] c \in {"f", "F"} -> 15
      [] OTHER -> NotHexDigit

\* Hex.assert(value, { strict: true }) passes: the value is not empty and
\* matches /^0x[0-9a-fA-F]*$/
HexAssertStrict(value) ==
    /\ Len(value) >= 2
    /\ SubSeq(value, 1, 2) = HEX_PREFIX
    /\ \A i \in 3..Len(value) : HexDigitValue(value[i]) # NotHexDigit

\* Bytes.fromHex: the digits after 0x, left-padded with one "0" when their
\* number is odd, two digits to a byte
BytesFromHex(hex) ==
    LET body == SubSeq(hex, 3, Len(hex))
        digits == IF Len(body) % 2 = 1 THEN <<"0">> \o body ELSE body
    IN [i \in 1..(Len(digits) \div 2) |->
            16 * HexDigitValue(digits[2 * i - 1]) + HexDigitValue(digits[2 * i])]

\* Hex.fromBytes: 0x and two lower-case digits per byte
RECURSIVE HexFromBytes(_)
HexFromBytes(bytes) ==
    IF bytes = <<>> THEN HEX_PREFIX
    ELSE HexFromBytes(SubSeq(bytes, 1, Len(bytes) - 1))
         \o <<HexDigits[(bytes[Len(bytes)] \div 16) + 1],
              HexDigits[(bytes[Len(bytes)] % 16) + 1]>>

\* An Rlp input is a hex text or a list of Rlp inputs.
RlpHex(hex) == [list |-> FALSE, hex |-> hex]
RlpList(items) == [list |-> TRUE, items |-> items]

\* the big-endian bytes of a length
RECURSIVE LengthBytes(_)
LengthBytes(n) ==
    IF n < 256 THEN <<n>> ELSE LengthBytes(n \div 256) \o <<n % 256>>

\* the prefix of a byte string or list body of the given length
RlpPrefix(offset, length) ==
    IF length <= 55 THEN <<offset + length>>
    ELSE <<offset + 55 + Len(LengthBytes(length))>> \o LengthBytes(length)

RECURSIVE RlpEncode(_)
RECURSIVE RlpEncodeAll(_)
\* the encodings of the items of a list, one after the other
RlpEncodeAll(items) ==
    IF items = <<>> THEN <<>>
    ELSE RlpEncode(Head(items)) \o RlpEncodeAll(Tail(items))
\* Rlp.from
RlpEncode(value) ==
    IF value.list
    THEN LET body == RlpEncodeAll(value.items)
         IN RlpPrefix(192, Len(body)) \o body
    ELSE LET bytes == BytesFromHex(value.hex)
         IN IF Len(bytes) = 1 /\ bytes[1] < 128 THEN bytes
            ELSE RlpPrefix(128, Len(bytes)) \o bytes

\* Rlp.fromHex
RlpFromHex(value) == HexFromBytes(RlpEncode(value))

\* what computeExtraData returns when Hex.assert throws
NoExtraData == <<"InvalidHexValueError">>

\* validators.map(...) of computeExtraData, with every Hex.assert passing
Normalized(validators) == [i \in 1..Len(validators) |-> RlpHex(validators[i])]

\* computeExtraData passing the validators on in reverse order
ExtraDataItemsReversed(algorithm, validators) ==
    LET normalized == [i \in 1..Len(validators) |->
                          RlpHex(validators[Len(validators) + 1 - i])]
    IN IF algorithm = ALGORITHM_ibftV2
       THEN RlpList(<<RlpHex(VANITY_DATA), RlpList(normalized), RlpHex(EMPTY_HEX),
                      RlpHex(ROUND_ZERO), RlpList(<<>>)>>)
       ELSE RlpList(<<RlpHex(VANITY_DATA), RlpList(normalized), RlpList(<<>>),
                      RlpHex(EMPTY_HEX), RlpList(<<>>)>>)

\* computeExtraData: the list handed to Rlp.fromHex
ExtraDataItems(algorithm, validators) ==
    IF algorithm = ALGORITHM_ibftV2
    THEN RlpList(<<RlpHex(VANITY_DATA), RlpList(Normalized(validators)),
                   RlpHex(EMPTY_HEX), RlpHex(ROUND_ZERO), RlpList(<<>>)>>)
    ELSE RlpList(<<RlpHex(VANITY_DATA), RlpList(Normalized(validators)),
                   RlpList(<<>>), RlpHex(EMPTY_HEX), RlpList(<<>>)>>)

\* computeExtraData: every address passes Hex.assert
ValidatorsAccepted(validators) ==
    \A i \in 1..Len(validators) : HexAssertStrict(validators[i])

\* computeExtraData
computeExtraData(algorithm, validators) ==
    IF ValidatorsAccepted(validators)
    THEN RlpFromHex(ExtraDataItems(algorithm, validators))
    ELSE NoExtraData

\* ---- The arguments that are explored ----
BlockPeriods == {1, 2, 5, 46, 60, 100}
\* gasPrice left out of the config, or given
NoGasPrice == 0 - 1
GasPrices == {NoGasPrice, 0, 1}
ChainIds == {0 - 1, 0, 1337}
GasLimits == {<<"0", "x", "1">>, <<"0", "x", "Z">>}
\* evmStackSize and contractSizeLimit left out of the config, or given
LimitChoices == {FALSE, TRUE}

NetworkConfig(chainId, secondsPerBlock, gasPrice, gasLimit, limits) ==
    [chainId |-> chainId, faucetWalletAddress |-> FaucetAddress,
     gasLimit |-> gasLimit, secondsPerBlock |-> secondsPerBlock]
    @@ (IF gasPrice = NoGasPrice THEN EmptyObject ELSE [gasPrice |-> gasPrice])
    @@ (IF limits THEN [evmStackSize |-> 2048, contractSizeLimit |-> 24576]
        ELSE EmptyObject)
NetworkConfigs ==
    {NetworkConfig(c, b, g, l, s) :
        c \in ChainIds, b \in BlockPeriods, g \in GasPrices, l \in GasLimits,
        s \in LimitChoices}

FaucetOverrideEntry == AllocEntry(FaucetAddress, [balance |-> "0x02"])
FaucetLowerCaseEntry ==
    AllocEntry(ToLowerCase(FaucetAddress), [balance |-> "0x05", code |-> "0x60"])
SecondAllocEntry == AllocEntry(<<"0", "x", "1", "2">>, [balance |-> "0x0"])
ExtraAllocationChoices ==
    {<<>>,
     <<ExtraAllocEntry>>,
     <<FaucetOverrideEntry>>,
     <<ExtraAllocEntry, FaucetOverrideEntry, SecondAllocEntry>>,
     <<FaucetLowerCaseEntry, ExtraAllocEntry>>}

TwentyByteValidator == HEX_PREFIX \o Zeros(37) \o <<"a", "b", "c">>
SmallByteValidator == <<"0", "x", "7", "f">>
LargeByteValidator == <<"0", "x", "8", "0">>
MixedCaseValidator == <<"0", "x", "A", "b", "C", "d">>
OddLengthValidator == <<"0", "x", "a", "b", "c">>
NotHexValidator == <<"0", "x", "z", "z">>
NoPrefixValidator == <<"a", "b", "c", "d">>
EmptyTextValidator == <<>>
ValidatorLists ==
    {<<>>,
     <<TwentyByteValidator>>,
     <<SmallByteValidator>>,
     <<SmallByteValidator, LargeByteValidator>>,
     <<LargeByteValidator, SmallByteValidator>>,
     <<TwentyByteValidator, MixedCaseValidator>>,
     <<MixedCaseValidator, TwentyByteValidator>>,
     <<SmallByteValidator, SmallByteValidator>>,
     <<SmallByteValidator, LargeByteValidator, MixedCaseValidator>>,
     <<MixedCaseValidator, LargeByteValidator, SmallByteValidator>>,
     <<TwentyByteValidator, TwentyByteValidator, TwentyByteValidator>>,
     <<EMPTY_HEX>>,
     <<OddLengthValidator>>,
     <<SmallByteValidator, OddLengthValidator>>,
     <<NotHexValidator>>,
     <<SmallByteValidator, NotHexValidator>>,
     <<NotHexValidator, SmallByteValidator>>,
     <<NoPrefixValidator>>,
     <<EmptyTextValidator, SmallByteValidator>>}

NoDocument == <<>>
NotComputed == <<"not computed">>
NotPublished == <<>>
\* no create call issued yet; compile-genesis not started yet
NotIssued == <<>>
NotStarted == <<>>

AsmInit ==
    /\ assembly \in [algorithm : Algorithms, config : NetworkConfigs,
                     extraAllocations : ExtraAllocationChoices,
                     validators : ValidatorLists]
    /\ asmPc = "ready"
    /\ genesis = NoDocument
    /\ extraData = NotComputed
    /\ minimal = NotPublished
    /\ creates = NotIssued
    /\ compiledFrom = NotStarted

AsmIdle ==
    /\ assembly = <<>>
    /\ asmPc = "idle"
    /\ genesis = NoDocument
    /\ extraData = NotComputed
    /\ minimal = NotPublished
    /\ creates = NotIssued
    /\ compiledFrom = NotStarted

CgIdle ==
    /\ cgStore = <<>>
    /\ cgPc = "idle"
    /\ cgError = "none"
    /\ cgGenesis = NoDocument
    /\ combinedAlloc = <<>>
    /\ cgIndex = 0
    /\ cgReads = <<>>
    /\ cgOutput = NoDocument

\* promptForGenesisConfig: service.generate(resolvedAlgorithm, config, allocations)
Generate ==
    /\ asmPc = "ready"
    /\ genesis' = generate(assembly.algorithm, assembly.config, assembly.extraAllocations)
    /\ asmPc' = "generated"
    /\ UNCHANGED <<assembly, extraData, minimal, creates, compiledFrom>>
    /\ UNCHANGED <<syncVars, pubVars, cgVars>>

\* promptForGenesisConfig: service.computeExtraData(resolvedAlgorithm,
\* validatorAddresses), then genesis = { ...baseGenesis, extraData }
ComputeExtraData ==
    /\ asmPc = "generated"
    /\ LET result == computeExtraData(assembly.algorithm, assembly.validators)
       IN /\ extraData' = result
          /\ IF result = NoExtraData
             THEN asmPc' = "rejected" /\ UNCHANGED genesis
             ELSE /\ genesis' = [genesis EXCEPT !.extraData = result]
                  /\ asmPc' = "encoded"
    /\ UNCHANGED <<assembly, minimal, creates, compiledFrom>>
    /\ UNCHANGED <<syncVars, pubVars, cgVars>>

\* The name of the genesis ConfigMap as a name of the store, and its data key.
GenesisConfigMapName == <<DefaultArtifactNames.genesisConfigMapName>>
GENESIS_DATA_KEY == "genesis.json"

\* the genesis spec without the allocation specs
PublishedRecordsGenesisOnly(m) ==
    <<RecordSpec(GenesisConfigMapName, GENESIS_DATA_KEY,
                 <<GENESIS_DATA_KEY, m.genesis>>, TRUE, "skip", NoAnnotation)>>

\* outputToKubernetes: the genesis spec and the allocation specs of configMapSpecs
PublishedRecords(m) ==
    <<RecordSpec(GenesisConfigMapName, GENESIS_DATA_KEY,
                 <<GENESIS_DATA_KEY, m.genesis>>, TRUE, "skip", NoAnnotation)>>
    \o m.allocationSpecs

\* outputToKubernetes up to its Promise.all over the ConfigMap specs: the
\* minimal genesis, the allocation specs and the validator specs it builds
\* from the payload (one generated node per validator of the assembly), and
\* the create calls of the genesis and allocation records, all sent at once.
PublishMinimal ==
    /\ asmPc = "encoded"
    /\ LET p == [genesis |-> genesis,
                 faucet |-> [address |-> assembly.config.faucetWalletAddress],
                 validators |-> generateGroup(Len(assembly.validators)),
                 artifactNames |-> DefaultArtifactNames]
           m == [genesis |-> minimalGenesis(p),
                 allocationSpecs |->
                     createAllocationConfigSpecs(p.genesis.alloc, p.faucet.address),
                 validatorSpecs |->
                     createValidatorSpecs(p.validators, p.artifactNames.validatorPrefix)]
       IN /\ minimal' = m
          /\ creates' = [k \in 1..Len(PublishedRecords(m)) |-> "pending"]
    /\ asmPc' = "published"
    /\ UNCHANGED <<assembly, genesis, extraData, compiledFrom>>
    /\ UNCHANGED <<syncVars, pubVars, cgVars>>

AsmNext ==
    \/ Generate
    \/ ComputeExtraData
    \/ PublishMinimal

(***************************************************************************)
(* Properties of the Genesis Assembler and the Extra-Data Encoder          *)
(***************************************************************************)
\* generate has returned a document
DocumentReturned == asmPc \in {"generated", "encoded", "rejected", "published"}
\* the consensus sub-block of the returned document
ConsensusBlock ==
    IF "ibft2" \in DOMAIN genesis.config THEN genesis.config.ibft2 ELSE genesis.config.qbft
BlockPeriod == assembly.config.secondsPerBlock

\* C11: for every positive block period b, the request timeout t written into
\* the consensus sub-block is floor(max(60, b) + max(5, 1.33 * b)): t is the
\* integer with t <= max(60, b) + max(5, 1.33 * b) < t + 1 (stated in hundredths).
C11_RequestTimeoutFormula ==
    (DocumentReturned /\ BlockPeriod > 0) =>
        LET t == ConsensusBlock.requesttimeoutseconds
            floorPart == IF BlockPeriod > 60 THEN BlockPeriod ELSE 60
            buffer == IF 133 * BlockPeriod > 500 THEN 133 * BlockPeriod ELSE 500
        IN /\ 100 * t <= 100 * floorPart + buffer
           /\ 100 * floorPart + buffer < 100 * (t + 1)

C11_Witness ==
    /\ asmPc = "generated"
    /\ BlockPeriod = 46
    /\ ConsensusBlock.requesttimeoutseconds = 121

\* C12 as stated: a QBFT genesis with a block period of 2 seconds has qbft block
\* period 2 and qbft request timeout 61.
C12_QbftTwoSecondsTimeout61 ==
    (DocumentReturned /\ assembly.algorithm = ALGORITHM_qbft /\ BlockPeriod = 2) =>
        /\ genesis.config.qbft.blockperiodseconds = 2
        /\ genesis.config.qbft.requesttimeoutseconds = 61

\* C12 amended: a QBFT genesis with a block period of 2 seconds has qbft block
\* period 2 and qbft request timeout 65 (60 + 5).
C12_QbftTwoSecondsTimeout65 ==
    (DocumentReturned /\ assembly.algorithm = ALGORITHM_qbft /\ BlockPeriod = 2) =>
        /\ "qbft" \in DOMAIN genesis.config
        /\ genesis.config.qbft.blockperiodseconds = 2
        /\ genesis.config.qbft.requesttimeoutseconds = 65

C12_Witness ==
    /\ asmPc = "generated"
    /\ assembly.algorithm = ALGORITHM_qbft
    /\ BlockPeriod = 2
    /\ assembly.config.chainId = 1337
    /\ assembly.extraAllocations = <<>>
    /\ genesis.config.qbft.requesttimeoutseconds = 65

\* C13: zeroBaseFee of an assembled genesis is true exactly when the configured
\* gas price is zero or absent; a gas price greater than zero gives false.
C13_ZeroBaseFee ==
    DocumentReturned =>
        /\ genesis.config.zeroBaseFee
              <=> ("gasPrice" \notin DOMAIN assembly.config \/ assembly.config.gasPrice = 0)
        /\ ("gasPrice" \in DOMAIN assembly.config /\ assembly.config.gasPrice > 0)
              => genesis.config.zeroBaseFee = FALSE

C13_Witness ==
    /\ asmPc = "generated"
    /\ "gasPrice" \notin DOMAIN assembly.config
    /\ genesis.config.zeroBaseFee = TRUE

\* C14: an assembled genesis has exactly one consensus sub-block: key ibft2 for
\* IBFT2 and key qbft for QBFT, the other key being absent.
C14_OneConsensusBlock ==
    DocumentReturned =>
        /\ assembly.algorithm = ALGORITHM_ibftV2 =>
              "ibft2" \in DOMAIN genesis.config /\ "qbft" \notin DOMAIN genesis.config
        /\ assembly.algorithm = ALGORITHM_qbft =>
              "qbft" \in DOMAIN genesis.config /\ "ibft2" \notin DOMAIN genesis.config

C14_Witness ==
    /\ asmPc = "generated"
    /\ assembly.algorithm = ALGORITHM_ibftV2
    /\ "ibft2" \in DOMAIN genesis.config
    /\ genesis.config.ibft2.blockperiodseconds = BlockPeriod

\* positions of an address in an allocation map
PositionsOf(alloc, address) == {i \in 1..Len(alloc) : alloc[i].address = address}

\* C15: the allocation map of an assembled genesis contains the faucet address
\* once; it holds the fixed starting balance unless extraAllocations has the
\* same address, whose entry then replaces it; every other extraAllocations
\* entry appears unchanged, and nothing else appears.
C15_AllocationMerge ==
    DocumentReturned =>
        LET faucet == assembly.config.faucetWalletAddress
            extra == assembly.extraAllocations
            alloc == genesis.alloc
        IN /\ Cardinality(PositionsOf(alloc, faucet)) = 1
           /\ \A i \in PositionsOf(alloc, faucet) :
                 IF PositionsOf(extra, faucet) = {}
                 THEN alloc[i].account = [balance |-> FAUCET_BALANCE]
                 ELSE \A j \in PositionsOf(extra, faucet) : alloc[i].account = extra[j].account
           /\ \A j \in 1..Len(extra) :
                 /\ Cardinality(PositionsOf(alloc, extra[j].address)) = 1
                 /\ \A i \in PositionsOf(alloc, extra[j].address) : alloc[i] = extra[j]
           /\ \A i \in 1..Len(alloc) :
                 alloc[i].address = faucet \/ PositionsOf(extra, alloc[i].address) # {}

C15_Witness ==
    /\ asmPc = "generated"
    /\ assembly.extraAllocations = <<ExtraAllocEntry, FaucetOverrideEntry, SecondAllocEntry>>
    /\ \E i \in 1..Len(genesis.alloc) : genesis.alloc[i] = FaucetOverrideEntry
    /\ \E i \in 1..Len(genesis.alloc) : genesis.alloc[i] = ExtraAllocEntry

\* a hex scalar: 0x followed by hex digits only
WellFormedHex(text) ==
    /\ Len(text) >= 2
    /\ text[1] = "0" /\ text[2] = "x"
    /\ \A i \in 3..Len(text) :
          text[i] \in {"0", "1", "2", "3", "4", "5", "6", "7", "8", "9",
                       "a", "b", "c", "d", "e", "f", "A", "B", "C", "D", "E", "F"}

\* C16: given a non-positive chain id or a malformed hex scalar, the assembler
\* fails and returns no document.
C16_InvalidConfigIsRejected ==
    (assembly.config.chainId <= 0 \/ ~WellFormedHex(assembly.config.gasLimit))
        => ~DocumentReturned

\* a well-formed, 0x-prefixed hex string with an even number of digits
WellFormedEvenHex(text) == WellFormedHex(text) /\ Len(text) % 2 = 0

\* computeExtraData has been called
ExtraDataCalled == asmPc \in {"encoded", "rejected", "published"}

\* C17: computeExtraData rejects the whole call, with no encoded output, when any
\* validator address is not a well-formed, 0x-prefixed, even-length hex string.
C17_MalformedAddressIsRejected ==
    (ExtraDataCalled
     /\ \E i \in 1..Len(assembly.validators) : ~WellFormedEvenHex(assembly.validators[i]))
        => asmPc = "rejected" /\ extraData = NoExtraData

\* ---- Reading an encoded extra-data back ----
\* the number a big-endian run of bytes stands for
RECURSIVE BigEndian(_)
BigEndian(bytes) ==
    IF bytes = <<>> THEN 0
    ELSE 256 * BigEndian(SubSeq(bytes, 1, Len(bytes) - 1)) + bytes[Len(bytes)]

\* the item whose encoding starts at position pos: whether it is a list, where
\* its payload starts, how long the payload is
ItemAt(bytes, pos) ==
    LET head == bytes[pos]
    IN IF head < 128 THEN [list |-> FALSE, start |-> pos, size |-> 1]
       ELSE IF head <= 183 THEN [list |-> FALSE, start |-> pos + 1, size |-> head - 128]
       ELSE IF head <= 191
            THEN [list |-> FALSE, start |-> pos + 1 + (head - 183),
                  size |-> BigEndian(SubSeq(bytes, pos + 1, pos + (head - 183)))]
       ELSE IF head <= 247 THEN [list |-> TRUE, start |-> pos + 1, size |-> head - 192]
       ELSE [list |-> TRUE, start |-> pos + 1 + (head - 247),
             size |-> BigEndian(SubSeq(bytes, pos + 1, pos + (head - 247)))]

\* the payloads of the byte strings encoded from position pos up to position last
RECURSIVE StringsFrom(_, _, _)
StringsFrom(bytes, pos, last) ==
    IF pos > last THEN <<>>
    ELSE LET item == ItemAt(bytes, pos)
         IN <<SubSeq(bytes, item.start, item.start + item.size - 1)>>
            \o StringsFrom(bytes, item.start + item.size, last)

\* the items of the top-level list, as <<is a list, payload>> pairs
RECURSIVE ItemsFrom(_, _, _)
ItemsFrom(bytes, pos, last) ==
    IF pos > last THEN <<>>
    ELSE LET item == ItemAt(bytes, pos)
         IN <<[list |-> item.list, start |-> item.start, size |-> item.size]>>
            \o ItemsFrom(bytes, item.start + item.size, last)

\* the bytes a hex text of the output stands for (two lower-case digits a byte)
OutputBytes(hex) ==
    [i \in 1..((Len(hex) - 2) \div 2) |->
        16 * HexDigitValue(hex[2 * i + 1]) + HexDigitValue(hex[2 * i + 2])]

\* the bytes an address stands for, digit by digit from its end
AddressBytes(address) ==
    LET digits == Len(address) - 2
        count == (digits + 1) \div 2
    IN [i \in 1..count |->
            LET low == Len(address) - 2 * (count - i)
            IN (IF low - 1 >= 3 THEN 16 * HexDigitValue(address[low - 1]) ELSE 0)
               + HexDigitValue(address[low])]

\* C18: the encoded extra-data is a list of five items whose second item is the
\* list of the validator addresses, byte for byte, in the order supplied and
\* with nothing dropped, merged or added; the first item is the 32-byte zero
\* vanity and the last three depend on the algorithm only.
C18_ValidatorsEmbeddedInOrder ==
    asmPc \in {"encoded", "published"} =>
        LET bytes == OutputBytes(extraData)
            top == ItemAt(bytes, 1)
            items == ItemsFrom(bytes, top.start, top.start + top.size - 1)
            body(k) == SubSeq(bytes, items[k].start, items[k].start + items[k].size - 1)
        IN /\ top.list
           /\ top.start + top.size - 1 = Len(bytes)
           /\ Len(items) = 5
           /\ ~items[1].list /\ body(1) = [i \in 1..32 |-> 0]
           /\ items[2].list
           /\ StringsFrom(bytes, items[2].start, items[2].start + items[2].size - 1)
                 = [i \in 1..Len(assembly.validators) |->
                       AddressBytes(assembly.validators[i])]
           /\ IF assembly.algorithm = ALGORITHM_ibftV2
              THEN /\ ~items[3].list /\ items[3].size = 0
                   /\ ~items[4].list /\ body(4) = <<0, 0, 0, 0>>
                   /\ items[5].list /\ items[5].size = 0
              ELSE /\ items[3].list /\ items[3].size = 0
                   /\ ~items[4].list /\ items[4].size = 0
                   /\ items[5].list /\ items[5].size = 0

C18_Witness ==
    /\ asmPc = "encoded"
    /\ assembly.validators = <<MixedCaseValidator, LargeByteValidator, SmallByteValidator>>
    /\ assembly.algorithm = ALGORITHM_qbft
    /\ Len(extraData) > 2 + 64

\* the address names the faucet account (addresses are hex text, compared
\* without regard to the case of the digits)
IsFaucetAddress(address) ==
    [i \in 1..Len(address) |-> IF address[i] \in {"0", "1", "2", "3", "4", "5", "6", "7", "8", "9"}
                                THEN address[i] ELSE LowerChar(address[i])]
    = [i \in 1..Len(FaucetAddress) |-> LowerChar(FaucetAddress[i])]

\* C19: the minimal genesis of a publish has the allocation addresses of the
\* assembled genesis, in the same order; every non-faucet entry is the
\* zero-balance placeholder and the faucet entry is the assembled one.
C19_MinimalGenesisAllocations ==
    asmPc = "published" =>
        LET assembled == genesis.alloc
            sparse == minimal.genesis.alloc
        IN /\ Len(sparse) = Len(assembled)
           /\ \A i \in 1..Len(assembled) :
                 /\ sparse[i].address = assembled[i].address
                 /\ IF IsFaucetAddress(assembled[i].address)
                    THEN sparse[i].account = assembled[i].account
                    ELSE sparse[i].account = [balance |-> "0x0"]

C19_Witness ==
    /\ asmPc = "published"
    /\ Len(genesis.alloc) = 3
    /\ \E i \in 1..Len(genesis.alloc) :
          /\ genesis.alloc[i] = ExtraAllocEntry
          /\ minimal.genesis.alloc[i] = AllocEntry(ExtraAllocEntry.address, [balance |-> "0x0"])
    /\ \E i \in 1..Len(genesis.alloc) :
          /\ genesis.alloc[i].address = FaucetAddress
          /\ minimal.genesis.alloc[i] = genesis.alloc[i]

\* The records produced for the validator generated i-th (one-based).
RecordsOfValidator(i) ==
    {k \in 1..Len(minimal.validatorSpecs) : (k - 1) \div 4 = i - 1}

\* The name of a validator record: prefix, ordinal and suffix.
ValidatorRecordName(ordinalText, suffix) ==
    <<DefaultArtifactNames.validatorPrefix, "-", ordinalText, suffix>>

\* C26: the validator generated i-th (one-based) produces exactly three public
\* records (address, public key, enode) and one private-key record, each holding
\* that validator's value and each named prefix-(i - 1)-suffix with the
\* zero-based ordinal; no other validator record is produced.
C26_ValidatorRecordsByOrdinal ==
    asmPc = "published" =>
        LET count == Len(assembly.validators)
            nodes == generateGroup(count)
            made == minimal.validatorSpecs
            ordinalText(i) == <<"0", "1", "2">>[i]
            Has(i, suffix, key, value) ==
                Cardinality({k \in RecordsOfValidator(i) :
                    /\ made[k].name = ValidatorRecordName(ordinalText(i), suffix)
                    /\ made[k].key = key
                    /\ made[k].value = value}) = 1
        IN /\ Len(made) = 4 * count
           /\ \A i \in 1..count :
                 /\ nodes[i].index = i
                 /\ Has(i, "-address", "address", nodes[i].address)
                 /\ Has(i, "-pubkey", "publicKey", nodes[i].publicKey)
                 /\ Has(i, "-enode", "enode", nodes[i].enode)
                 /\ Has(i, "-private-key", "privateKey", nodes[i].privateKey)
                 /\ Cardinality({k \in RecordsOfValidator(i) : IsPublicSpec(made[k])}) = 3
                 /\ Cardinality({k \in RecordsOfValidator(i) : IsPrivateKeySpec(made[k])}) = 1
                 /\ \A k \in RecordsOfValidator(i), j \in 1..count :
                       j # i => made[k].name[3] # ordinalText(j)

C26_Witness ==
    /\ asmPc = "published"
    /\ Len(assembly.validators) = 3
    /\ \E k \in 1..Len(minimal.validatorSpecs) :
          /\ minimal.validatorSpecs[k].name = ValidatorRecordName("2", "-private-key")
          /\ minimal.validatorSpecs[k].value = ValidatorNode(3).privateKey
    /\ \E k \in 1..Len(minimal.validatorSpecs) :
          /\ minimal.validatorSpecs[k].name = ValidatorRecordName("0", "-address")
          /\ minimal.validatorSpecs[k].value = ValidatorNode(1).address

\* The allocations of the assembled genesis that are not the faucet's, in order.
NonFaucetAllocations ==
    SelectSeq(genesis.alloc, LAMBDA entry : ~IsFaucetAddress(entry.address))

\* The record name of an address: "alloc-" and the digits after 0x in lower case.
AllocationRecordName(address) ==
    <<"alloc-">> \o [j \in 1..(Len(address) - 2) |-> LowerChar(address[j + 2])]

\* C27: a publish produces exactly one allocation record per non-faucet
\* allocation of the assembled genesis, in order: it is immutable, carries the
\* allocation annotation value, holds the account's full allocation under
\* alloc.json and is named alloc-<address in lower case without 0x>; no
\* allocation record is produced for the faucet address.
C27_AllocationRecords ==
    asmPc = "published" =>
        LET made == minimal.allocationSpecs
        IN /\ Len(made) = Len(NonFaucetAllocations)
           /\ \A k \in 1..Len(NonFaucetAllocations) :
                 /\ made[k].name = AllocationRecordName(NonFaucetAllocations[k].address)
                 /\ made[k].immutable
                 /\ made[k].annotation = "alloc"
                 /\ made[k].key = "alloc.json"
                 /\ made[k].value = <<"alloc.json", NonFaucetAllocations[k].account>>
           /\ \A k \in 1..Len(made) :
                 made[k].name # AllocationRecordName(FaucetAddress)

C27_Witness ==
    /\ asmPc = "published"
    /\ Len(genesis.alloc) = 3
    /\ Len(minimal.allocationSpecs) = 1
    /\ \E i \in 1..Len(genesis.alloc) : genesis.alloc[i].address = ToLowerCase(FaucetAddress)
    /\ minimal.allocationSpecs[1].name = <<"alloc-", "0", "b", "c", "d">>
    /\ minimal.allocationSpecs[1].value = <<"alloc.json", [balance |-> "0x64", code |-> "0x6000"]>>

(***************************************************************************)
(* Part IV - compile-genesis                                               *)
(***************************************************************************)
ALLOCATION_DATA_KEY == "alloc.json"

\* A data value of a ConfigMap is a text: the empty text, a text that is not
\* JSON, or the text of a JSON value. A JSON value is kept with its kind, as
\* JSON.parse tells them apart: a string, a number, null, an array, or an object
\* (a record of members, or the entries of a map in the order of the text).
JsonString(text) == [kind |-> "string", text |-> text]
JsonNumber == [kind |-> "number"]
JsonNull == [kind |-> "null"]
JsonArray == [kind |-> "array"]
JsonOf(value) == [kind |-> "object", value |-> value]
JsonMapOf(entries) == [kind |-> "object", entries |-> entries]
NotJson == [kind |-> "invalid"]
EmptyText == [kind |-> "empty"]

\* JSON.stringify of an allocation account: balance and code are strings,
\* storage is an object of strings.
AccountText(account) ==
    JsonOf([k \in DOMAIN account |->
              IF k = "storage"
              THEN JsonOf([slot \in DOMAIN account.storage |->
                              JsonString(account.storage[slot])])
              ELSE JsonString(account[k])])

\* JSON.parse of the text of an allocation account that isBesuAllocAccount
\* accepts, with the members balance, code and storage.
AccountValue(text) ==
    [k \in DOMAIN text.value |->
        IF k = "storage"
        THEN [slot \in DOMAIN text.value.storage.value |->
                 text.value.storage.value[slot].text]
        ELSE text.value[k].text]

\* JSON.stringify of a genesis: the allocation map is an object of accounts;
\* the other members are the values they stand for.
GenesisText(document) ==
    JsonOf([document EXCEPT !.alloc =
              JsonMapOf([i \in 1..Len(document.alloc) |->
                           [address |-> document.alloc[i].address,
                            account |-> AccountText(document.alloc[i].account)]])])

\* what readNamespacedConfigMap answers for a name
ConfigMapWith(data) == [found |-> TRUE, data |-> data]
NotFound == [found |-> FALSE]
NoData == EmptyObject

\* isPlainObject, of a parsed value: truthy, typeof "object", not an array
isPlainObject(value) == value.kind = "object"

\* isBesuAllocAccount, of a parsed value: a plain object whose balance is a
\* string, whose code is absent or a string, and whose storage is absent or a
\* plain object of strings
isBesuAllocAccount(value) ==
    /\ isPlainObject(value)
    /\ "balance" \in DOMAIN value.value
    /\ value.value.balance.kind = "string"
    /\ "code" \in DOMAIN value.value => value.value.code.kind = "string"
    /\ "storage" \in DOMAIN value.value =>
          /\ isPlainObject(value.value.storage)
          /\ \A slot \in DOMAIN value.value.storage.value :
                value.value.storage.value[slot].kind = "string"

\* parseGenesisPayload: the error it throws, or "none"
GenesisPayloadError(text) ==
    IF text.kind \in {"invalid", "empty"} THEN "genesis-not-json"
    ELSE IF ~isPlainObject(text) THEN "genesis-not-object"
    ELSE IF "alloc" \notin DOMAIN text.value THEN "genesis-without-alloc"
    ELSE IF ~isPlainObject(text.value.alloc) THEN "genesis-alloc-not-object"
    ELSE IF \E i \in 1..Len(text.value.alloc.entries) :
               ~isBesuAllocAccount(text.value.alloc.entries[i].account)
         THEN "genesis-allocation-invalid"
    ELSE "none"

\* parseGenesisPayload: { ...parsed, alloc: normalizedAlloc }
parseGenesisPayload(text) ==
    LET entries == text.value.alloc.entries
    IN [text.value EXCEPT !.alloc =
           AllocSpread(<<>>, [i \in 1..Len(entries) |->
                                AllocEntry(entries[i].address,
                                           AccountValue(entries[i].account))])]

\* parseAllocationEntry: the error it throws, or "none"
AllocationEntryError(text) ==
    IF text.kind \in {"invalid", "empty"} THEN "allocation-not-json"
    ELSE IF ~isBesuAllocAccount(text) THEN "allocation-invalid"
    ELSE "none"

\* the data value under a key; a missing key and the empty text are both falsy
HasPayload(configMap, key) ==
    /\ key \in DOMAIN configMap.data
    /\ configMap.data[key].kind # "empty"

\* compileGenesis leaving combinedAlloc as it is
MergeAllocationKeepingPlaceholder(alloc, address, account) == alloc

\* compileGenesis: combinedAlloc[address] = account
MergeAllocation(alloc, address, account) == AllocPut(alloc, AllocEntry(address, account))

\* ---- The stores that are explored ----
StoredFaucet == [address |-> FaucetAddress]
StoredGenesis(extraAllocations) ==
    minimalGenesis(
        [genesis |-> generate(ALGORITHM_qbft,
                              NetworkConfig(1337, 2, NoGasPrice, <<"0", "x", "1">>, TRUE),
                              extraAllocations),
         faucet |-> StoredFaucet])
\* a stored genesis whose allocation map holds one entry with the given text
GenesisWithAccount(accountText) ==
    JsonOf([StoredGenesis(<<>>) EXCEPT !.alloc =
              JsonMapOf(<<[address |-> <<"0", "x", "1", "2">>, account |-> accountText]>>)])
GenesisConfigMaps ==
    {ConfigMapWith(GENESIS_DATA_KEY :> GenesisText(StoredGenesis(extra))) :
        extra \in ExtraAllocationChoices}
    \cup {NotFound,
          ConfigMapWith(NoData),
          ConfigMapWith(GENESIS_DATA_KEY :> EmptyText),
          ConfigMapWith(GENESIS_DATA_KEY :> NotJson),
          ConfigMapWith(GENESIS_DATA_KEY :> JsonNumber),
          ConfigMapWith(GENESIS_DATA_KEY :> JsonArray),
          ConfigMapWith(GENESIS_DATA_KEY :> JsonOf([config |-> [chainId |-> 1337]])),
          ConfigMapWith(GENESIS_DATA_KEY :>
              JsonOf([StoredGenesis(<<>>) EXCEPT !.alloc = JsonArray])),
          ConfigMapWith(GENESIS_DATA_KEY :>
              JsonOf([StoredGenesis(<<>>) EXCEPT !.alloc = JsonNull])),
          ConfigMapWith(GENESIS_DATA_KEY :>
              GenesisWithAccount(JsonOf([code |-> JsonString("0x60")]))),
          ConfigMapWith(GENESIS_DATA_KEY :>
              GenesisWithAccount(JsonOf([balance |-> JsonNumber]))),
          ConfigMapWith(GENESIS_DATA_KEY :> GenesisWithAccount(JsonArray))}

FundedAccount == [balance |-> "0x1234", code |-> "0x6000"]
StorageAccount == [balance |-> "0x1", storage |-> [slot0 |-> "0x01"]]
AllocationConfigMaps ==
    {NotFound,
     ConfigMapWith(NoData),
     ConfigMapWith(ALLOCATION_DATA_KEY :> EmptyText),
     ConfigMapWith(ALLOCATION_DATA_KEY :> NotJson),
     ConfigMapWith(ALLOCATION_DATA_KEY :> JsonNull),
     ConfigMapWith(ALLOCATION_DATA_KEY :> JsonOf([code |-> JsonString("0x60")])),
     ConfigMapWith(ALLOCATION_DATA_KEY :> JsonOf([balance |-> JsonNumber])),
     ConfigMapWith(ALLOCATION_DATA_KEY :>
         JsonOf([balance |-> JsonString("0x1"), code |-> JsonNull])),
     ConfigMapWith(ALLOCATION_DATA_KEY :>
         JsonOf([balance |-> JsonString("0x1"), storage |-> JsonArray])),
     ConfigMapWith(ALLOCATION_DATA_KEY :>
         JsonOf([balance |-> JsonString("0x1"),
                 storage |-> JsonOf([slot0 |-> JsonNumber])])),
     ConfigMapWith(ALLOCATION_DATA_KEY :> AccountText(StorageAccount)),
     ConfigMapWith(ALLOCATION_DATA_KEY :> AccountText(FundedAccount)),
     ConfigMapWith(ALLOCATION_DATA_KEY :> AccountText([balance |-> "0x64"]))}
AllocationConfigMapNames ==
    {toAllocationConfigMapName(FaucetAddress),
     toAllocationConfigMapName(ExtraAllocEntry.address),
     toAllocationConfigMapName(SecondAllocEntry.address)}

CgInit ==
    /\ \E genesisConfig \in GenesisConfigMaps :
       \E records \in [AllocationConfigMapNames -> AllocationConfigMaps] :
          cgStore = [name \in AllocationConfigMapNames \cup {GenesisConfigMapName} |->
                        IF name = GenesisConfigMapName THEN genesisConfig
                        ELSE records[name]]
    /\ cgPc = "start"
    /\ cgError = "none"
    /\ cgGenesis = NoDocument
    /\ combinedAlloc = <<>>
    /\ cgIndex = 0
    /\ cgReads = <<>>
    /\ cgOutput = NoDocument

CgFail(error) ==
    /\ cgPc' = "failed"
    /\ cgError' = error

\* compileGenesis: await createKubernetesClient()
CompileConnects(probeOk) ==
    /\ cgPc = "start"
    /\ IF probeOk
       THEN cgPc' = "genesis" /\ UNCHANGED cgError
       ELSE CgFail("no-access")
    /\ UNCHANGED <<cgStore, cgGenesis, combinedAlloc, cgIndex, cgReads, cgOutput>>
    /\ UNCHANGED <<syncVars, pubVars, asmVars>>

\* compileGenesis: readConfigMap(context, genesisConfigMapName) up to the start
\* of the loop over the allocation addresses
ReadGenesis(readOk) ==
    /\ cgPc = "genesis"
    /\ cgReads' = Append(cgReads, GenesisConfigMapName)
    /\ LET genesisConfig == cgStore[GenesisConfigMapName]
       IN IF ~readOk THEN
              CgFail("read-failed") /\ UNCHANGED <<cgGenesis, combinedAlloc, cgIndex>>
          ELSE IF ~genesisConfig.found THEN
              CgFail("genesis-not-found") /\ UNCHANGED <<cgGenesis, combinedAlloc, cgIndex>>
          ELSE IF ~HasPayload(genesisConfig, GENESIS_DATA_KEY) THEN
              CgFail("genesis-without-payload")
              /\ UNCHANGED <<cgGenesis, combinedAlloc, cgIndex>>
          ELSE IF GenesisPayloadError(genesisConfig.data[GENESIS_DATA_KEY]) # "none" THEN
              CgFail(GenesisPayloadError(genesisConfig.data[GENESIS_DATA_KEY]))
              /\ UNCHANGED <<cgGenesis, combinedAlloc, cgIndex>>
          ELSE /\ cgGenesis' = parseGenesisPayload(genesisConfig.data[GENESIS_DATA_KEY])
               /\ combinedAlloc' = cgGenesis'.alloc
               /\ cgIndex' = 1
               /\ cgPc' = "merging"
               /\ UNCHANGED cgError
    /\ UNCHANGED <<cgStore, cgOutput>>
    /\ UNCHANGED <<syncVars, pubVars, asmVars>>

\* compileGenesis: one iteration of the loop over Object.keys(combinedAlloc)
ReadAllocation(readOk) ==
    /\ cgPc = "merging"
    /\ cgIndex <= Len(combinedAlloc)
    /\ LET address == combinedAlloc[cgIndex].address
           allocationConfigMapName == toAllocationConfigMapName(address)
           allocationConfig == cgStore[allocationConfigMapName]
       IN /\ cgReads' = Append(cgReads, allocationConfigMapName)
          /\ IF ~readOk THEN
                 CgFail("read-failed") /\ UNCHANGED <<combinedAlloc, cgIndex>>
             ELSE IF ~allocationConfig.found
                     \/ ~HasPayload(allocationConfig, ALLOCATION_DATA_KEY) THEN
                 /\ cgIndex' = cgIndex + 1
                 /\ UNCHANGED <<combinedAlloc, cgPc, cgError>>
             ELSE IF AllocationEntryError(allocationConfig.data[ALLOCATION_DATA_KEY]) # "none"
             THEN
                 CgFail(AllocationEntryError(allocationConfig.data[ALLOCATION_DATA_KEY]))
                 /\ UNCHANGED <<combinedAlloc, cgIndex>>
             ELSE /\ combinedAlloc' =
                        MergeAllocation(combinedAlloc, address,
                            AccountValue(allocationConfig.data[ALLOCATION_DATA_KEY]))
                  /\ cgIndex' = cgIndex + 1
                  /\ UNCHANGED <<cgPc, cgError>>
    /\ UNCHANGED <<cgStore, cgGenesis, cgOutput>>
    /\ UNCHANGED <<syncVars, pubVars, asmVars>>

\* compileGenesis: await mkdir(dirname(outputPath), { recursive: true })
MakeOutputDirectory(made) ==
    /\ cgPc = "merging"
    /\ cgIndex > Len(combinedAlloc)
    /\ IF made
       THEN cgPc' = "writing" /\ UNCHANGED cgError
       ELSE CgFail("write-failed")
    /\ UNCHANGED <<cgStore, cgGenesis, combinedAlloc, cgIndex, cgReads, cgOutput>>
    /\ UNCHANGED <<syncVars, pubVars, asmVars>>

\* compileGenesis: await Bun.write(outputPath, ...) of combinedGenesis
WriteCompiledGenesis(written) ==
    /\ cgPc = "writing"
    /\ IF written
       THEN /\ cgOutput' = [cgGenesis EXCEPT !.alloc = combinedAlloc]
            /\ cgPc' = "done"
            /\ UNCHANGED cgError
       ELSE CgFail("write-failed") /\ UNCHANGED cgOutput
    /\ UNCHANGED <<cgStore, cgGenesis, combinedAlloc, cgIndex, cgReads>>
    /\ UNCHANGED <<syncVars, pubVars, asmVars>>

CgNext ==
    \/ \E probeOk \in BOOLEAN : CompileConnects(probeOk)
    \/ \E readOk \in BOOLEAN : ReadGenesis(readOk)
    \/ \E readOk \in BOOLEAN : ReadAllocation(readOk)
    \/ \E made \in BOOLEAN : MakeOutputDirectory(made)
    \/ \E written \in BOOLEAN : WriteCompiledGenesis(written)

\* the genesis the store holds, and the entries of its allocation map
StoredDocument == cgStore[GenesisConfigMapName].data[GENESIS_DATA_KEY].value
StoredAlloc ==
    [i \in 1..Len(StoredDocument.alloc.entries) |->
        AllocEntry(StoredDocument.alloc.entries[i].address,
                   AccountValue(StoredDocument.alloc.entries[i].account))]
\* the allocation record of an address
RecordOf(address) == cgStore[toAllocationConfigMapName(address)]

\* C20: compile-genesis writes the stored genesis with each allocation entry
\* replaced by the account of that address's allocation record when the record
\* exists with an allocation payload, and left as stored when the record is
\* missing or has no allocation payload; every other field is as stored.
C20_CompiledGenesis ==
    cgPc = "done" =>
        /\ DOMAIN cgOutput = DOMAIN StoredDocument
        /\ \A field \in DOMAIN StoredDocument \ {"alloc"} :
              cgOutput[field] = StoredDocument[field]
        /\ Len(cgOutput.alloc) = Len(StoredAlloc)
        /\ \A i \in 1..Len(StoredAlloc) :
              LET stored == StoredAlloc[i]
                  record == RecordOf(stored.address)
              IN /\ cgOutput.alloc[i].address = stored.address
                 /\ IF record.found /\ ALLOCATION_DATA_KEY \in DOMAIN record.data
                       /\ record.data[ALLOCATION_DATA_KEY].kind = "object"
                    THEN cgOutput.alloc[i].account =
                            AccountValue(record.data[ALLOCATION_DATA_KEY])
                    ELSE cgOutput.alloc[i].account = stored.account

C20_Witness ==
    /\ cgPc = "done"
    /\ Len(StoredAlloc) = 3
    /\ \E i \in 1..3 : /\ StoredAlloc[i].account = [balance |-> "0x0"]
                       /\ cgOutput.alloc[i].account = FundedAccount
    /\ \E i \in 1..3 : /\ ~RecordOf(StoredAlloc[i].address).found
                       /\ cgOutput.alloc[i] = StoredAlloc[i]
    /\ \E i \in 1..3 : /\ RecordOf(StoredAlloc[i].address).found
                       /\ cgOutput.alloc[i] = StoredAlloc[i]

(***************************************************************************)
(* A minimal publish followed by compile-genesis over the same store       *)
(***************************************************************************)
\* The text JSON.stringify wrote for the value of a spec, as JSON.parse reads
\* it: the genesis spec holds a genesis, an allocation spec an account.
ParsedText(value) ==
    IF value[1] = GENESIS_DATA_KEY THEN GenesisText(value[2]) ELSE AccountText(value[2])

\* createConfigMap: the object the store holds once the create call succeeded,
\* data: { [spec.key]: spec.value }
ConfigMapOf(spec) == ConfigMapWith(spec.key :> ParsedText(spec.value))

\* The names compile-genesis may ask the store for, and the store before the
\* publish: none of them is found.
StoreNames == AllocationConfigMapNames \cup {GenesisConfigMapName}
EmptyStore == [name \in StoreNames |-> NotFound]

\* createConfigMap: the reply to one of the create calls arrives. Each call is
\* a request of its own, answered in any order; the store answers a name it
\* already holds with a conflict, which these records skip.
CreateReplied(k, reply) ==
    /\ asmPc = "published"
    /\ k \in DOMAIN creates
    /\ creates[k] = "pending"
    /\ LET spec == PublishedRecords(minimal)[k]
           storeReply == IF reply = "ok" /\ cgStore[spec.name].found
                         THEN "conflict" ELSE reply
           outcome == CreateOutcome(storeReply, spec.onConflict)
       IN /\ creates' = [creates EXCEPT ![k] = outcome]
          /\ cgStore' = IF outcome = "created"
                        THEN [cgStore EXCEPT ![spec.name] = ConfigMapOf(spec)]
                        ELSE cgStore
    /\ UNCHANGED <<assembly, asmPc, genesis, extraData, minimal, compiledFrom>>
    /\ UNCHANGED <<cgPc, cgError, cgGenesis, combinedAlloc, cgIndex, cgReads, cgOutput>>
    /\ UNCHANGED <<syncVars, pubVars>>

\* compile-genesis is started against the store, at any time once the create
\* calls are sent: before a reply, between two replies, or after the last.
CompileStarts ==
    /\ asmPc = "published"
    /\ cgPc = "idle"
    /\ cgPc' = "start"
    /\ compiledFrom' = creates
    /\ UNCHANGED <<assembly, asmPc, genesis, extraData, minimal, creates>>
    /\ UNCHANGED <<cgStore, cgError, cgGenesis, combinedAlloc, cgIndex, cgReads, cgOutput>>
    /\ UNCHANGED <<syncVars, pubVars>>

\* The replies a create call is explored with.
CreateReplies == {"ok", "error"}

\* compile-genesis not started, the store holding none of the records.
CgAwaiting ==
    /\ cgStore = EmptyStore
    /\ cgPc = "idle"
    /\ cgError = "none"
    /\ cgGenesis = NoDocument
    /\ combinedAlloc = <<>>
    /\ cgIndex = 0
    /\ cgReads = <<>>
    /\ cgOutput = NoDocument

\* The network configurations the round trip is explored with: every chain
\* id, gas price, gas limit and limits choice, with one block period.
RoundTripConfigs ==
    {NetworkConfig(c, 5, g, gl, l) :
        c \in ChainIds, g \in GasPrices, gl \in GasLimits, l \in LimitChoices}

RoundTripNext ==
    \/ Generate
    \/ ComputeExtraData
    \/ PublishMinimal
    \/ \E k \in 1..MaxRecords, reply \in CreateReplies : CreateReplied(k, reply)
    \/ CompileStarts
    \/ \E probeOk \in BOOLEAN : CompileConnects(probeOk)
    \/ \E readOk \in BOOLEAN : ReadGenesis(readOk)
    \/ \E readOk \in BOOLEAN : ReadAllocation(readOk)
    \/ \E made \in BOOLEAN : MakeOutputDirectory(made)
    \/ \E written \in BOOLEAN : WriteCompiledGenesis(written)

\* The publish created all of its records and compile-genesis was started
\* after the last of them.
CompiledAfterPublish ==
    /\ cgPc # "idle"
    /\ \A k \in 1..Len(PublishedRecords(minimal)) :
          k \in DOMAIN compiledFrom /\ compiledFrom[k] = "created"

\* C30: when a minimal publish created all of its records, a compile-genesis
\* run started after it that completes writes a genesis whose allocation map
\* is the assembled one (every address, in order, with its balance, code and
\* storage) and whose other fields are the assembled ones.
C30_PublishCompileRoundTrip ==
    (cgPc = "done" /\ CompiledAfterPublish) =>
        /\ cgOutput.alloc = genesis.alloc
        /\ DOMAIN cgOutput = DOMAIN genesis
        /\ \A field \in DOMAIN genesis \ {"alloc"} : cgOutput[field] = genesis[field]

C30_Witness ==
    /\ cgPc = "done"
    /\ CompiledAfterPublish
    /\ Len(genesis.alloc) = 3
    /\ Len(minimal.allocationSpecs) = 2
    /\ \E i \in 1..3 :
          /\ genesis.alloc[i] = ExtraAllocEntry
          /\ minimal.genesis.alloc[i].account = [balance |-> "0x0"]
          /\ cgOutput.alloc[i] = ExtraAllocEntry
    /\ \E i \in 1..3 :
          /\ IsFaucetAddress(genesis.alloc[i].address)
          /\ cgOutput.alloc[i] = genesis.alloc[i]
    /\ Len(cgReads) = 4

\* A synchronization run (download-abi) on its own.
SyncStart == SyncInit /\ PubIdle /\ AsmIdle /\ CgIdle
SyncSpec == SyncStart /\ [][SyncNext]_vars

\* A publish run (bootstrap output to Kubernetes) on its own.
PublishStart == PubInit /\ SyncIdle /\ AsmIdle /\ CgIdle
PublishSpec == PublishStart /\ [][PubNext]_vars

\* Assembling a genesis (promptForGenesisConfig) and publishing it minimally.
AssembleStart == AsmInit /\ SyncIdle /\ PubIdle /\ CgIdle
AssembleSpec == AssembleStart /\ [][AsmNext]_vars

\* A compile-genesis run on its own.
CompileStart == CgInit /\ SyncIdle /\ PubIdle /\ AsmIdle
CompileSpec == CompileStart /\ [][CgNext]_vars

\* Assembling a genesis, publishing it minimally and compiling it back.
RoundTripStart ==
    /\ AsmInit
    /\ assembly.config \in RoundTripConfigs
    /\ assembly.validators = <<TwentyByteValidator>>
    /\ SyncIdle
    /\ PubIdle
    /\ CgAwaiting
RoundTripSpec == RoundTripStart /\ [][RoundTripNext]_vars

====
